---------------------------- MODULE Spec2Model ----------------------------
(***************************************************************************)
(* A model of auto-wiz: the flow runners (Puppeteer / Playwright), the     *)
(* in-page step executor, the locator generator and the locator resolver.  *)
(*                                                                         *)
(* Specifications:                                                         *)
(*   Spec        the flow runner's run() loop over a flow (C1..C5)         *)
(*   SpecStoppable  the same loop, with a stop signalled from outside        *)
(*   SpecStep    one step executed by each backend's runStep/executeStep    *)
(*   SpecLegacyStep  one step executed by the runStep of the earlier        *)
(*               PlaywrightFlowRunner (race of the selectors)               *)
(*   SpecPoll    the polling loop of waitForLocator / getElement on a clock *)
(*   SpecResolve generateRobustLocator for an element of a document, then   *)
(*               findByLocator on the same document                         *)
(***************************************************************************)
EXTENDS Integers, Sequences, FiniteSets, TLC

VARIABLES
    \* ---- flow runner: PuppeteerFlowRunner.run / PlaywrightFlowRunner.run
    backend,        \* which runner class is running: "puppeteer" | "playwright"
    flow,           \* flow.steps, a sequence of steps (1-based here, index i-1 in the code)
    stopOnError,    \* options.stopOnError: "unset" | "true" | "false"
    pc,             \* position of run(): "start" | "loop" | "inStep" | "done"
    index,          \* the loop's index (0-based, as in the code)
    extractedData,  \* the local extractedData object of run(): a function key -> value
    runResult,      \* the RunResult run() returned (NoRunResult until it returns)
    pageUrl,        \* page.url() of the page handed to run()
    implicitNav,    \* history: "none" | "ok" | "failed", the implicit page.goto of run()
    started,        \* history: the indexes for which runStep was called, in call order
    produced,       \* history: the ExecutionResult runStep returned, per started step
    stopRequested   \* environment: the index in flight when a stop was signalled, -1 before

runVars == <<backend, flow, stopOnError, pc, index, extractedData, runResult,
             pageUrl, implicitNav, started, produced, stopRequested>>

VARIABLES
    \* ---- one step handed to runStep (remote runners) or executeStep (in-page)
    sBackend,       \* "dom" | "puppeteer" | "playwright" | "legacy"
    sStep,          \* the step
    sEnv,           \* what the page does while the step runs
    sResult,        \* what the call returned, or the exception that left it
    sPc             \* "idle" | "ready" | "done"

stepVars == <<sBackend, sStep, sEnv, sResult, sPc>>

VARIABLES
    \* ---- the polling loop: waitForLocator (in-page), getElement / resolveLocator (remote)
    pResolver,      \* "waitForLocator" | "getElement"
    pTimeoutOpt,    \* the timeout handed in, in ms (0: not given)
    pAppears,       \* whether the page ever shows the element
    pNow,           \* Date.now() - startedAt, in ms
    pPc,            \* "idle" | "check" | "poll" | "sleep" | "returned" | "thrown"
    pLastError,     \* getElement's lastError
    pPolls,         \* history: how many polls were made
    pFallbacks,     \* locator.fallbacks.length
    pError,         \* the error thrown at the end of the budget (NoPollError before)
    pBelow          \* history: some poll had candidates, none at the confidence threshold

pollVars == <<pResolver, pTimeoutOpt, pAppears, pNow, pPc, pLastError, pPolls,
              pFallbacks, pError, pBelow>>

VARIABLES
    \* ---- recording an element of a page and finding it again (in-page)
    rDoc,            \* the document
    rTarget,         \* the element the locator was generated for (0: none yet)
    rLocator,        \* the ElementLocator generateRobustLocator returned
    rFound,          \* the element findByLocator returned (0: null)
    rPc,             \* "idle" | "loaded" | "recorded" | "scored" | "resolved"
    rPicked          \* the candidate a poll of the remote resolver selected, and
                     \* whether the page changed after the scoring

resolveVars == <<rDoc, rTarget, rLocator, rFound, rPc, rPicked>>

VARIABLES
    \* ---- the recorder adding steps to the persisted flow
    fAdapter,        \* "extension" | "memory": the StorageAdapter in use
    fStored,         \* the flow under FLOW_STORAGE_KEY (NoFlow: nothing stored)
    fPc,             \* "idle" | "saving" | "updating": where the call in flight is
    fFlow,           \* addStep's local flow
    fStep,           \* addStep's argument
    fCalls,          \* the number of addStep calls made
    fBefore,         \* history: the steps persisted before the first call
    fAdded,          \* history: the steps of the calls that resolved, in order
    fReadFailed,     \* history: some read of the store threw
    fOverlap,        \* the addStep calls that run overlapped, each with its position
    fRead            \* "none" | "ok" | "failed": the read of the call in flight

storageVars == <<fAdapter, fStored, fPc, fFlow, fStep, fCalls, fBefore, fAdded,
                 fReadFailed, fOverlap, fRead>>

VARIABLES
    \* ---- the recorder's typing state and what it has sent
    uActive,         \* document.activeElement: the text field that has the focus
    uValue,          \* the value of each text field
    uTypingSelector, \* typingSelectorRef (0: null)
    uTypingValue,    \* typingValueRef
    uTimer,          \* typingTimerRef: the debounce timer is armed
    uSent,           \* the steps the last handler sent as REC_STEP, in order
    uRecording,      \* "on" | "stopping" (stopRecording awaits) | "off": recordingRef
    uEnterPending,   \* the textarea whose Enter is looked at 50 ms later (0: none)
    uCount           \* history: per field, the type steps sent for its value
                     \* since it was last typed into (Untyped: never was)

recorderVars == <<uActive, uValue, uTypingSelector, uTypingValue, uTimer, uSent,
                  uRecording, uEnterPending, uCount>>

VARIABLES
    \* ---- the race of the selectors in the earlier PlaywrightFlowRunner
    qTimeout,        \* the timeout each waitFor of the race is given
    qAppear,         \* environment: when each selector's first element gets visible
    qNow,            \* ms since resolveLocator was called
    qPromise,        \* each selector's promise: "pending" | "fulfilled" | "rejected"
    qWinner,         \* the selector whose locator was returned (0: none)
    qPc             \* "idle" | "racing" | "resolved" | "thrown"

raceVars == <<qTimeout, qAppear, qNow, qPromise, qWinner, qPc>>

vars == <<runVars, stepVars, pollVars, resolveVars, storageVars, recorderVars,
         raceVars>>

\* what the actions of one component leave alone
otherThanRun == <<stepVars, pollVars, resolveVars, storageVars, recorderVars,
    raceVars>>
otherThanStep == <<runVars, pollVars, resolveVars, storageVars, recorderVars,
    raceVars>>
otherThanPoll == <<runVars, stepVars, resolveVars, storageVars, recorderVars,
    raceVars>>
otherThanResolve == <<runVars, stepVars, pollVars, storageVars, recorderVars,
    raceVars>>
otherThanStorage == <<runVars, stepVars, pollVars, resolveVars, recorderVars,
    raceVars>>
otherThanRecorder == <<runVars, stepVars, pollVars, resolveVars, storageVars,
    raceVars>>
otherThanRace == <<runVars, stepVars, pollVars, resolveVars, storageVars, recorderVars>>

-----------------------------------------------------------------------------
(* Bounds of the model *)

MaxSteps == 3

\* the longest a remote evaluation of one poll takes, in ms
MaxEvalMs == 60

\* the most rows of a form and the most buttons of a toolbar
MaxRows == 3

-----------------------------------------------------------------------------
(* Strings are sequences of characters, so that trim() and truthiness are   *)
(* computed and not assumed.                                                *)

RECURSIVE TrimStart(_)
TrimStart(s) ==
    IF s = <<>> THEN <<>>
    ELSE IF Head(s) = " " THEN TrimStart(Tail(s)) ELSE s

RECURSIVE TrimEnd(_)
TrimEnd(s) ==
    IF s = <<>> THEN <<>>
    ELSE IF s[Len(s)] = " " THEN TrimEnd(SubSeq(s, 1, Len(s) - 1)) ELSE s

\* String.prototype.trim
Trim(s) == TrimEnd(TrimStart(s))

\* a JavaScript value that is a string or undefined/null
Undefined == [def |-> FALSE, s |-> <<>>]
Str(s) == [def |-> TRUE, s |-> s]

\* text?.trim()
OptTrim(v) == IF v.def THEN Str(Trim(v.s)) ELSE Undefined

\* JavaScript truthiness of a string-or-undefined value
Truthy(v) == v.def /\ v.s # <<>>

-----------------------------------------------------------------------------
(* Steps.  A step carries its type and, for each optional field of the Step *)
(* union, whether the field is present and truthy.                          *)

StepTypes == { "click", "type", "select", "extract", "waitFor", "navigate",
               "waitForNavigation", "keyboard", "screenshot" }

ExtractProps == { "none", "innerText", "value", "outerHTML", "structure", "simplified" }

\* a step of the given type with every optional field absent; fallbacks tells
\* whether the locator, if there is one, lists selectors besides its primary
BaseStep(type) ==
    [ type |-> type, locator |-> FALSE, url |-> FALSE, key |-> FALSE,
      value |-> FALSE, timeoutMs |-> FALSE, prop |-> "none",
      text |-> Undefined, originalText |-> Undefined, submit |-> FALSE,
      fallbacks |-> TRUE ]

\* the text of a recorded type step: what the editor displays, masked for a
\* sensitive field
MaskedText == Str(<<"*", "*">>)
StepTexts == { Str(<<>>), MaskedText }

\* the originalText of a recorded type step: the value actually typed.  The
\* element "{{user}}" stands for the placeholder of the variable user.
OriginalTexts ==
    { Undefined, Str(<<>>), Str(<<"p", "w">>), Str(<<"{{user}}", "!">>) }

\* the steps of one type: the fields its handlers read take every value
StepsOf(type) ==
    CASE type = "click" ->
            { [BaseStep(type) EXCEPT !.locator = l, !.url = u] : l \in BOOLEAN, u \in BOOLEAN }
      [] type = "type" ->
            { [BaseStep(type) EXCEPT !.locator = l, !.text = t, !.originalText = o,
                                     !.submit = sub] :
                l \in BOOLEAN, t \in StepTexts, o \in OriginalTexts, sub \in BOOLEAN }
      [] type = "select" ->
            { [BaseStep(type) EXCEPT !.locator = l, !.value = v] : l \in BOOLEAN, v \in BOOLEAN }
      [] type = "extract" ->
            { [BaseStep(type) EXCEPT !.locator = l, !.prop = p] : l \in BOOLEAN, p \in ExtractProps }
      [] type = "waitFor" ->
            { w \in { [BaseStep(type) EXCEPT !.locator = l, !.timeoutMs = t,
                                             !.fallbacks = f] :
                          l \in BOOLEAN, t \in BOOLEAN, f \in BOOLEAN } :
                w.locator \/ w.fallbacks }
      [] type = "navigate" ->
            { [BaseStep(type) EXCEPT !.url = u] : u \in BOOLEAN }
      [] type = "waitForNavigation" ->
            { [BaseStep(type) EXCEPT !.timeoutMs = t] : t \in BOOLEAN }
      [] type = "keyboard" ->
            { [BaseStep(type) EXCEPT !.locator = l, !.key = k] : l \in BOOLEAN, k \in BOOLEAN }
      [] type = "screenshot" ->
            { [BaseStep(type) EXCEPT !.locator = l] : l \in BOOLEAN }

AllSteps == UNION { StepsOf(t) : t \in StepTypes }

\* what a string read from the page (textContent, an input's value) can be
PageTexts == { Undefined, Str(<<>>), Str(<<"a">>), Str(<<" ", "b", " ">>) }
PageValues == { Str(<<>>), Str(<<" ", "c">>) }

\* options.variables of a run: absent, an empty map, or a map that binds user
VariableMaps == { "absent", "empty", "user" }

\* what the page does while one step runs: whether the locator matches a visible
\* element within the timeout, the kind of element, whether it passes
\* isInteractable, whether it has an owning form, whether the page action itself
\* goes through, and what the element's text and value read as; with them the
\* variables the caller passes in its options.  Without an element its
\* attributes are immaterial and take one value.
PageEnvs(b) ==
    { e \in [ found : BOOLEAN, interactable : BOOLEAN, hasForm : BOOLEAN,
              actionOk : BOOLEAN, tag : {"input", "select", "div"},
              text : IF b = "puppeteer" THEN PageTexts ELSE { t \in PageTexts : t.def },
              value : PageValues, variables : VariableMaps ] :
        ~e.found => /\ ~e.interactable /\ ~e.hasForm /\ e.tag = "div"
                    /\ e.text = Str(<<>>) /\ e.value = Str(<<>>) }

Base64Image == Str(<<"i", "V", "B">>)
HtmlMarkup == Str(<<"<", "p", ">">>)

\* what a step does to the page: a click, a value set or typed into a control
\* with its text, a key pressed or dispatched, a form submitted, an option
\* selected, a navigation
Act(op, text) == [ op |-> op, text |-> text ]
ClickAct == Act("click", <<>>)
FillAct(text) == Act("fill", text)
EnterAct == Act("press", <<"Enter">>)
KeyAct == Act("press", <<"key">>)
SubmitAct == Act("submit", <<>>)
SelectAct == Act("select", <<>>)
GotoAct == Act("goto", <<>>)

\* ExecutionResult, or the exception that left the function; acts lists what the
\* call did to the page before it came back
Returned(success, error, data) ==
    [ kind |-> "returned", success |-> success, error |-> error,
      extractedData |-> data, acts |-> <<>> ]
Thrown(error) ==
    [ kind |-> "thrown", success |-> FALSE, error |-> error,
      extractedData |-> Undefined, acts |-> <<>> ]
Success == Returned(TRUE, "none", Undefined)
SuccessWith(data) == Returned(TRUE, "none", data)
Failure(error) == Returned(FALSE, error, Undefined)

\* the outcome r of the code that runs after the page was acted on
Acting(acts, r) == [ r EXCEPT !.acts = acts \o @ ]

\* text.replace(/\{\{(\w+)\}\}/g, (_, key) => variables[key] ?? "")
RECURSIVE ReplacePlaceholders(_, _)
ReplacePlaceholders(text, variables) ==
    IF text = <<>> THEN <<>>
    ELSE LET rest == ReplacePlaceholders(Tail(text), variables) IN
         IF Head(text) = "{{user}}"
         THEN (IF variables = "user" THEN <<"u">> ELSE <<>>) \o rest
         ELSE <<Head(text)>> \o rest

\* resolveText
resolveText(text, variables) ==
    IF variables = "absent" \/ text = <<>> THEN text
    ELSE ReplacePlaceholders(text, variables)

\* a || b || "" of two string-or-undefined values
FirstTruthy(a, b) == IF Truthy(a) THEN a.s ELSE IF Truthy(b) THEN b.s ELSE <<>>

\* the text a type step enters, before placeholders are resolved: the current
\* runners and the in-page executor read originalText || text || "", the
\* legacy PlaywrightFlowRunner reads text || originalText || ""
RawText(b, step) ==
    IF b = "legacy" THEN FirstTruthy(step.text, step.originalText)
    ELSE FirstTruthy(step.originalText, step.text)

\* the text a type step enters
TypedText(b, step, env) ==
    IF b = "legacy" THEN RawText(b, step)
    ELSE resolveText(RawText(b, step), env.variables)

\* getElement / resolveLocator, as runStep sees it: the element, or the error
\* thrown.  pickBestCandidate of the current runners keeps the candidates that
\* are visible and interactable; the legacy resolveLocator returns the locator
\* of a single selector unwaited and races the selectors for visibility otherwise.
GetElement(b, step, env) ==
    IF ~step.locator THEN Thrown("Step requires a locator")
    ELSE IF b = "legacy" THEN
        IF ~step.fallbacks \/ env.found THEN Success
        ELSE Thrown("Failed to resolve locator")
    ELSE IF env.found /\ env.interactable THEN Success
    ELSE Thrown("Failed to resolve locator")

\* a page action (click, type, goto, ...) that throws when the page refuses it
PageAction(env, then) == IF env.actionOk THEN then ELSE Thrown("page action failed")

\* an action of a Playwright locator waits until its element is visible and
\* enabled, and throws at its timeout
ElementAction(b, env, then) ==
    IF b = "legacy" /\ ~(env.found /\ env.interactable) THEN Thrown("Timeout exceeded")
    ELSE PageAction(env, then)

\* a read of a Playwright locator waits until its element is attached
ElementRead(b, env, then) ==
    IF b = "legacy" /\ ~env.found THEN Thrown("Timeout exceeded")
    ELSE PageAction(env, then)

\* the type case of the remote runners' runStep: the text is entered, then
\* Enter is pressed if submit is set
RemoteType(b, step, env) ==
    Acting(<<FillAct(TypedText(b, step, env))>>,
           ElementAction(b, env,
               IF step.submit THEN Acting(<<EnterAct>>, Success) ELSE Success))

\* the text an extract step of the remote runners reads from the element
RemoteExtract(b, step, env) ==
    IF b = "puppeteer" THEN PageAction(env, SuccessWith(OptTrim(env.text)))
    ELSE CASE step.prop = "value" ->
                 IF env.tag = "div" THEN Thrown("Node is not an input")
                 ELSE ElementRead(b, env, SuccessWith(OptTrim(env.value)))
           [] step.prop = "innerText" -> ElementRead(b, env, SuccessWith(OptTrim(env.text)))
           [] b = "legacy" /\ step.prop # "outerHTML" -> SuccessWith(Undefined)
           [] OTHER -> ElementRead(b, env, SuccessWith(OptTrim(HtmlMarkup)))

\* the select case of the remote runners' runStep
RemoteSelect(b, step, env) ==
    IF ~step.value THEN Success
    ELSE IF env.tag # "select" THEN Thrown("Element is not a select element")
    ELSE Acting(<<SelectAct>>, ElementAction(b, env, Success))

\* the switch of runStep, before its try/catch; the legacy runner has no case
\* for keyboard, waitForNavigation and screenshot steps
RunStepBody(b, step, env) ==
    LET el == GetElement(b, step, env) IN
    CASE step.type = "navigate" ->
            IF step.url THEN Acting(<<GotoAct>>, PageAction(env, Success)) ELSE Success
      [] step.type = "click" ->
            IF el.kind = "thrown" THEN el
            ELSE Acting(<<ClickAct>>, ElementAction(b, env, Success))
      [] step.type = "type" ->
            IF el.kind = "thrown" THEN el ELSE RemoteType(b, step, env)
      [] step.type = "select" ->
            IF el.kind = "thrown" THEN el ELSE RemoteSelect(b, step, env)
      [] step.type = "extract" ->
            IF el.kind = "thrown" THEN el ELSE RemoteExtract(b, step, env)
      [] step.type = "waitFor" ->
            IF step.locator THEN el ELSE Success
      [] b = "legacy" -> Success
      [] step.type = "keyboard" ->
            IF ~step.key THEN Failure("Keyboard step requires key")
            ELSE IF step.locator /\ el.kind = "thrown" THEN el
            ELSE Acting(<<KeyAct>>, PageAction(env, Success))
      [] step.type = "waitForNavigation" -> PageAction(env, Success)
      [] step.type = "screenshot" ->
            IF step.locator /\ el.kind = "thrown" THEN el
            ELSE PageAction(env, SuccessWith(Base64Image))

\* the mutant of CatchAll: runStep without its try/catch
CatchNothing(r) == r

\* try { switch ... } catch (error) { return { success: false, error } }
CatchAll(r) == IF r.kind = "thrown" THEN Acting(r.acts, Failure(r.error)) ELSE r

\* PuppeteerFlowRunner.runStep / PlaywrightFlowRunner.runStep
RunStep(b, step, env) == CatchAll(RunStepBody(b, step, env))

-----------------------------------------------------------------------------
(* The in-page executor: executeStep and its per-type functions            *)

\* findElement: the element waitForLocator resolved, or null; it waits for an
\* element that is visible and interactable, and its catch turns the timeout of
\* waitForLocator into null
FindElement(step, env) == step.locator /\ env.found /\ env.interactable

ElementNotFound == Failure("Element not found with selector")
NotInteractable == Failure("Element is not interactable")

\* executeClickStep
ExecuteClickStep(step, env) ==
    IF ~FindElement(step, env) THEN ElementNotFound
    ELSE IF ~env.interactable THEN NotInteractable
    ELSE Acting(<<ClickAct>>,
                IF env.actionOk THEN Success ELSE Failure("Failed to click element"))

\* the submit branch of executeTypeStep: the owning form is submitted, or the
\* Enter keydown is dispatched on the element
SubmitOrEnter(step, env) ==
    IF ~step.submit THEN <<>>
    ELSE IF env.hasForm THEN <<SubmitAct>> ELSE <<EnterAct>>

\* executeTypeStep
ExecuteTypeStep(step, env) ==
    IF ~FindElement(step, env) THEN ElementNotFound
    ELSE IF env.tag # "input" THEN Failure("Element is not a text input")
    ELSE IF ~env.interactable THEN NotInteractable
    ELSE IF env.actionOk
         THEN Acting(<<FillAct(TypedText("dom", step, env))>> \o SubmitOrEnter(step, env),
                     Success)
         ELSE Acting(<<FillAct(TypedText("dom", step, env))>>,
                     Failure("Failed to type into element"))

\* executeSelectStep
ExecuteSelectStep(step, env) ==
    IF ~step.value THEN Failure("Invalid select step")
    ELSE IF ~FindElement(step, env) THEN ElementNotFound
    ELSE IF env.tag # "select" THEN Failure("Element is not a select element")
    ELSE IF ~env.interactable THEN NotInteractable
    ELSE Acting(<<SelectAct>>,
                IF env.actionOk THEN Success ELSE Failure("Failed to select option"))

\* element.textContent?.trim() || ""
TrimOrEmpty(v) == IF Truthy(OptTrim(v)) THEN OptTrim(v) ELSE Str(<<>>)

\* executeExtractStep
ExecuteExtractStep(step, env) ==
    LET prop == IF step.prop = "none" THEN "innerText" ELSE step.prop IN
    IF ~FindElement(step, env) THEN ElementNotFound
    ELSE IF ~env.actionOk THEN Failure("Failed to extract data")
    ELSE IF prop = "value" /\ env.tag # "div" THEN SuccessWith(env.value)
    ELSE IF prop = "innerText" THEN SuccessWith(TrimOrEmpty(env.text))
    ELSE IF prop = "outerHTML" THEN SuccessWith(HtmlMarkup)
    ELSE SuccessWith(TrimOrEmpty(env.text))

\* executeWaitForStep: waitForLocator is asked for a visible element only
ExecuteWaitForStep(step, env) ==
    IF ~step.locator /\ step.timeoutMs THEN Success
    ELSE IF step.locator THEN
        IF env.found THEN Success ELSE Failure("WaitFor failed")
    ELSE Failure("WaitFor step requires locator or timeoutMs")

\* the switch of executeStep, inside its try/catch
ExecuteStepBody(step, env) ==
    CASE step.type = "click" -> ExecuteClickStep(step, env)
      [] step.type = "type" -> ExecuteTypeStep(step, env)
      [] step.type = "select" -> ExecuteSelectStep(step, env)
      [] step.type = "extract" -> ExecuteExtractStep(step, env)
      [] step.type = "waitFor" -> ExecuteWaitForStep(step, env)
      [] step.type = "navigate" -> Success
      [] OTHER -> Failure("Unknown step type")

\* executeStep
ExecuteStep(step, env) == CatchAll(ExecuteStepBody(step, env))

\* the entry point of each backend
StepResult(b, step, env) ==
    IF b = "dom" THEN ExecuteStep(step, env) ELSE RunStep(b, step, env)

NoResult ==
    [ kind |-> "none", success |-> FALSE, error |-> "none", extractedData |-> Undefined,
      acts |-> <<>> ]

StepIdle ==
    /\ sBackend = "none"
    /\ sStep = BaseStep("navigate")
    /\ sEnv = [ found |-> FALSE, interactable |-> FALSE, hasForm |-> FALSE,
                actionOk |-> FALSE, tag |-> "div", text |-> Str(<<>>),
                value |-> Str(<<>>), variables |-> "absent" ]
    /\ sResult = NoResult
    /\ sPc = "idle"

StepInit ==
    /\ sBackend \in {"dom", "puppeteer", "playwright"}
    /\ sStep \in AllSteps
    /\ sEnv \in PageEnvs(sBackend)
    /\ sResult = NoResult
    /\ sPc = "ready"

\* a step handed to the PlaywrightFlowRunner of the earlier runner module,
\* whose resolveLocator races the selectors
LegacyStepInit ==
    /\ sBackend = "legacy"
    /\ sStep \in AllSteps
    /\ sEnv \in PageEnvs(sBackend)
    /\ sResult = NoResult
    /\ sPc = "ready"

\* the step is executed and the call comes back
StepExecute ==
    /\ sPc = "ready"
    /\ sResult' = StepResult(sBackend, sStep, sEnv)
    /\ sPc' = "done"
    /\ UNCHANGED <<sBackend, sStep, sEnv>>
    /\ UNCHANGED otherThanStep

-----------------------------------------------------------------------------
(* The document.  An element is a record; the document is the sequence of   *)
(* its elements in document order (a parent comes before its children, a    *)
(* subtree is contiguous).  parent = 0 marks the root.  Attribute values    *)
(* and texts are sequences of characters, <<>> for an absent attribute, so  *)
(* that trim(), includes() and the regular expressions are computed.        *)

Elem(tag, parent) ==
    [ tag |-> tag, parent |-> parent, id |-> <<>>, testAttr |-> "none", testId |-> <<>>,
      name |-> <<>>, aria |-> <<>>, labelledby |-> <<>>, placeholder |-> <<>>,
      title |-> <<>>, alt |-> <<>>, role |-> "", type |-> "", for |-> <<>>,
      cls |-> <<>>, text |-> <<>>, value |-> <<>>, display |-> "block",
      disabled |-> FALSE ]

Nodes(d) == 1..Len(d)

\* the ancestors of i, nearest first
RECURSIVE Ancestors(_, _)
Ancestors(d, i) ==
    IF d[i].parent = 0 THEN <<>> ELSE <<d[i].parent>> \o Ancestors(d, d[i].parent)

SeqToSet(q) == { q[k] : k \in 1..Len(q) }

\* the elements of the set S in document order
RECURSIVE InOrder(_, _)
InOrder(S, n) ==
    IF n = 0 THEN <<>>
    ELSE IF n \in S THEN Append(InOrder(S, n - 1), n) ELSE InOrder(S, n - 1)

Ordered(d, S) == InOrder(S, Len(d))

\* parent.children
Children(d, p) == Ordered(d, { i \in Nodes(d) : d[i].parent = p })

\* the descendants of p (querySelectorAll scope of an element)
Descendants(d, p) == { i \in Nodes(d) : p \in SeqToSet(Ancestors(d, i)) }

\* element.previousElementSibling, 0 for null
PreviousElementSibling(d, i) ==
    LET before == { j \in Nodes(d) : j < i /\ d[j].parent = d[i].parent } IN
    IF d[i].parent = 0 \/ before = {} THEN 0
    ELSE CHOOSE j \in before : \A k \in before : k <= j

\* element.closest(tag): the element itself or its nearest ancestor with that tag, 0 for null
Closest(d, i, tag) ==
    LET chain == <<i>> \o Ancestors(d, i)
        hits == { k \in 1..Len(chain) : d[chain[k]].tag = tag } IN
    IF hits = {} THEN 0 ELSE chain[CHOOSE k \in hits : \A m \in hits : k <= m]

\* node.textContent: the texts of the element and its descendants, in document order
RECURSIVE ConcatTexts(_, _)
ConcatTexts(d, q) ==
    IF q = <<>> THEN <<>> ELSE d[Head(q)].text \o ConcatTexts(d, Tail(q))

TextContent(d, i) == ConcatTexts(d, Ordered(d, {i} \cup Descendants(d, i)))

\* String.prototype.includes
Includes(s, sub) ==
    \E k \in 0..(Len(s) - Len(sub)) : SubSeq(s, k + 1, k + Len(sub)) = sub

\* the first element of a sequence of nodes, 0 when it is empty
FirstOf(q) == IF q = <<>> THEN 0 ELSE q[1]

FormFieldTags == { "input", "textarea", "select" }

\* instanceof HTMLInputElement | HTMLTextAreaElement | HTMLSelectElement
IsFormField(d, i) == d[i].tag \in FormFieldTags

\* isVisible of locatorUtils: BODY and HTML always, else the computed style
IsVisible(d, i) ==
    \/ d[i].tag \in {"body", "html"}
    \/ d[i].display # "none"

-----------------------------------------------------------------------------
(* Character classes of the regular expressions the generator tests names   *)
(* against.                                                                 *)

Digits == { "0", "1", "2", "3", "4", "5", "6", "7", "8", "9" }
LowerChars == { "a", "b", "c", "d", "e", "f", "g", "h", "i", "j", "k", "l", "m",
                "n", "o", "p", "q", "r", "s", "t", "u", "v", "w", "x", "y", "z" }
UpperChars == { "A", "B", "C", "D", "E", "F", "G", "H", "I", "J", "K", "L", "M",
                "N", "O", "P", "Q", "R", "S", "T", "U", "V", "W", "X", "Y", "Z" }
Letters == LowerChars \cup UpperChars
AlphaNum == Letters \cup Digits
HexLower == Digits \cup { "a", "b", "c", "d", "e", "f" }
HexAnyCase == HexLower \cup { "A", "B", "C", "D", "E", "F" }

AllIn(s, C) == \A k \in 1..Len(s) : s[k] \in C

StartsWith(s, p) == Len(s) >= Len(p) /\ SubSeq(s, 1, Len(p)) = p

Rest(s, n) == SubSeq(s, n + 1, Len(s))

\* a run of at least n characters of C somewhere in s: /[C]{n,}/
HasRun(s, C, n) ==
    \E k \in 1..(Len(s) - n + 1) : \A j \in k..(k + n - 1) : s[j] \in C

\* /[0-9a-f]{8,}/ as generateRobustLocator tests element.id
HashLikeId(id) == HasRun(id, HexLower, 8)

\* /[0-9a-f]{8,}/i as getFormContext and makeSelector's callers test ids
HashLikeIdAnyCase(id) == HasRun(id, HexAnyCase, 8)

\* /^[A-Z][a-zA-Z]+_[a-zA-Z]+__[a-zA-Z0-9]+$/
IsCssModuleClass(c) ==
    \E i \in 2..Len(c), j \in 2..Len(c) :
        /\ c[1] \in UpperChars
        /\ i + 2 <= j
        /\ AllIn(SubSeq(c, 2, i), Letters)
        /\ c[i + 1] = "_"
        /\ AllIn(SubSeq(c, i + 2, j), Letters)
        /\ j + 3 <= Len(c)
        /\ c[j + 1] = "_" /\ c[j + 2] = "_"
        /\ AllIn(Rest(c, j + 2), AlphaNum)

isCssInJsClass(c) ==
    \/ Len(c) > 4 /\ SubSeq(c, 1, 4) \in { <<x, y, z, "-">> : x \in {"c", "C"}, y \in {"s", "S"}, z \in {"s", "S"} }
                  /\ AllIn(Rest(c, 4), AlphaNum)
    \/ Len(c) > 3 /\ StartsWith(c, <<"s", "c", "-">>) /\ AllIn(Rest(c, 3), AlphaNum)
    \/ Len(c) > 1 /\ c[1] = "_" /\ AllIn(Rest(c, 1), AlphaNum \cup {"_"})
    \/ IsCssModuleClass(c)
    \/ HasRun(c, HexAnyCase, 8)
    \/ StartsWith(c, <<"c", "h", "a", "k", "r", "a", "-">>)

-----------------------------------------------------------------------------
(* Selectors.  A compound selector is tag#id[attr="val"].cls:nth-of-type(n) *)
(* with "" , <<>> and 0 for the parts it lacks.  A selector is a chain of   *)
(* compounds under the child combinator, or the list                        *)
(* "F input, F textarea, F select" for a compound F.                        *)

Compound(tag, id, attr, val, cls, nth) ==
    [ tag |-> tag, id |-> id, attr |-> attr, val |-> val, cls |-> cls, nth |-> nth ]

Chain(path) == [ comb |-> "child", path |-> path ]
FieldsOf(form) == [ comb |-> "fields", path |-> <<form>> ]

TestIdAttrs == << "data-testid", "data-test", "data-cy", "data-test-id" >>

\* element.getAttribute(attr), <<>> when the attribute is absent
GetAttribute(d, i, attr) ==
    CASE attr \in SeqToSet(TestIdAttrs) -> IF d[i].testAttr = attr THEN d[i].testId ELSE <<>>
      [] attr = "name" -> d[i].name
      [] attr = "aria-label" -> d[i].aria
      [] attr = "placeholder" -> d[i].placeholder
      [] attr = "title" -> d[i].title
      [] attr = "alt" -> d[i].alt
      [] attr = "for" -> d[i].for
      [] OTHER -> <<>>

\* the position of i among its siblings of the same tag, from 1
NthOfType(d, i) ==
    1 + Cardinality({ j \in Nodes(d) : j < i /\ d[j].parent = d[i].parent
                                       /\ d[i].parent # 0 /\ d[j].tag = d[i].tag })

MatchesCompound(d, i, c) ==
    /\ c.tag = "" \/ d[i].tag = c.tag
    /\ c.id = <<>> \/ d[i].id = c.id
    /\ c.attr = "" \/ (c.val # <<>> /\ GetAttribute(d, i, c.attr) = c.val)
    /\ \A k \in 1..Len(c.cls) : c.cls[k] \in SeqToSet(d[i].cls)
    /\ c.nth = 0 \/ NthOfType(d, i) = c.nth

\* i matches the chain a > b > ... > z: z matches i, and the rest its parent
RECURSIVE MatchesChain(_, _, _)
MatchesChain(d, i, path) ==
    /\ i # 0
    /\ MatchesCompound(d, i, path[Len(path)])
    /\ Len(path) = 1 \/ MatchesChain(d, d[i].parent, SubSeq(path, 1, Len(path) - 1))

Matches(d, i, sel) ==
    IF sel.comb = "child" THEN MatchesChain(d, i, sel.path)
    ELSE /\ d[i].tag \in FormFieldTags
         /\ \E a \in SeqToSet(Ancestors(d, i)) : MatchesCompound(d, a, sel.path[1])

\* document.querySelectorAll(sel), in document order
QuerySelectorAll(d, sel) == Ordered(d, { i \in Nodes(d) : Matches(d, i, sel) })

\* document.getElementById(id), 0 for null
GetElementById(d, id) == FirstOf(Ordered(d, { i \in Nodes(d) : id # <<>> /\ d[i].id = id }))

\* scope.querySelector("label"), 0 for null
FirstLabelIn(d, scope) == FirstOf(Ordered(d, { i \in scope : d[i].tag = "label" }))

\* scope.querySelector("input, textarea, select"), 0 for null
FirstFieldIn(d, scope) == FirstOf(Ordered(d, { i \in scope : IsFormField(d, i) }))

-----------------------------------------------------------------------------
(* The locator generator.                                                   *)

\* the first of the four test-id attributes that is set
getTestId(d, i) == IF d[i].testAttr = "none" THEN <<>> ELSE d[i].testId

\* the ARIA role recorded for an element, "" for null
inferRole(d, i) ==
    IF d[i].role # "" THEN d[i].role
    ELSE CASE d[i].tag = "button" -> "button"
           [] d[i].tag = "a" -> "link"
           [] d[i].tag = "input" -> IF d[i].type \in {"", "text"} THEN "textbox" ELSE d[i].type
           [] d[i].tag = "textarea" -> "textbox"
           [] d[i].tag = "select" -> "combobox"
           [] d[i].tag = "img" -> "img"
           [] d[i].tag \in {"h1", "h2", "h3", "h4", "h5", "h6"} -> "heading"
           [] OTHER -> ""

MaxTextLength == 50

Truncate(s) == IF Len(s) > MaxTextLength THEN SubSeq(s, 1, MaxTextLength) ELSE s

\* value or placeholder of an input or textarea, alt of an image, else the
\* element's own text nodes, trimmed and cut to 50 characters
getVisibleText(d, i) ==
    IF d[i].tag \in {"input", "textarea"}
    THEN IF d[i].value # <<>> THEN d[i].value ELSE d[i].placeholder
    ELSE IF d[i].tag = "img" THEN d[i].alt
    ELSE Truncate(Trim(d[i].text))

StableClasses(d, i) ==
    SelectSeq(d[i].cls, LAMBDA c : ~isCssInJsClass(c))

FirstTwo(q) == SubSeq(q, 1, IF Len(q) < 2 THEN Len(q) ELSE 2)

\* tag plus the first two stable classes; <<>> for null
generateClassSelector(d, i) ==
    IF d[i].cls = <<>> \/ StableClasses(d, i) = <<>> THEN <<>>
    ELSE << Compound(d[i].tag, <<>>, "", <<>>, FirstTwo(StableClasses(d, i)), 0) >>

\* the text of a label an ancestor of the field, without the label's first field
LabelTextWithoutField(d, label) ==
    LET field == FirstFieldIn(d, Descendants(d, label))
        dropped == IF field = 0 THEN {} ELSE {field} \cup Descendants(d, field) IN
    Trim(ConcatTexts(d, Ordered(d, ({label} \cup Descendants(d, label)) \ dropped)))

\* label[for="id"], 0 for null
LabelFor(d, id) ==
    FirstOf(Ordered(d, { j \in Nodes(d) : d[j].tag = "label" /\ d[j].for = id }))

\* the text of the label associated with a form field, <<>> for null
getAssociatedLabelText(d, i) ==
    LET parentLabel == Closest(d, i, "label")
        labelled == GetElementById(d, d[i].labelledby)
        prevSibling == PreviousElementSibling(d, i)
        parent == d[i].parent
        labelInParent == IF parent = 0 THEN 0 ELSE FirstLabelIn(d, Descendants(d, parent)) IN
    IF d[i].id # <<>> /\ LabelFor(d, d[i].id) # 0
        THEN Trim(TextContent(d, LabelFor(d, d[i].id)))
    ELSE IF parentLabel # 0 /\ LabelTextWithoutField(d, parentLabel) # <<>>
        THEN LabelTextWithoutField(d, parentLabel)
    ELSE IF d[i].labelledby # <<>> /\ labelled # 0
        THEN Trim(TextContent(d, labelled))
    ELSE IF prevSibling # 0 /\ d[prevSibling].tag = "label"
        THEN Trim(TextContent(d, prevSibling))
    ELSE IF labelInParent # 0 /\ (d[labelInParent].for = <<>> \/ d[labelInParent].for = d[i].id)
        THEN Trim(TextContent(d, labelInParent))
    ELSE <<>>

\* the position of x in the sequence q, 0 when it is not in it
IndexOf(q, x) ==
    IF \E k \in 1..Len(q) : q[k] = x
    THEN CHOOSE k \in 1..Len(q) : q[k] = x /\ \A m \in 1..(k - 1) : q[m] # x
    ELSE 0

NoFormContext == [ present |-> FALSE, formSelector |-> Compound("", <<>>, "", <<>>, <<>>, 0),
                   fieldIndex |-> 0 ]

\* the selector of the enclosing form and the field's position in it
getFormContext(d, i) ==
    LET form == Closest(d, i, "form")
        forms == Ordered(d, { j \in Nodes(d) : d[j].tag = "form" })
        fields == Ordered(d, { j \in Descendants(d, form) : IsFormField(d, j) })
        formSelector ==
            IF d[form].id # <<>> /\ ~HashLikeIdAnyCase(d[form].id)
                THEN Compound("", d[form].id, "", <<>>, <<>>, 0)
            ELSE IF d[form].name # <<>>
                THEN Compound("form", <<>>, "name", d[form].name, <<>>, 0)
            ELSE IF generateClassSelector(d, form) # <<>>
                THEN generateClassSelector(d, form)[1]
            ELSE Compound("form", <<>>, "", <<>>, <<>>, IndexOf(forms, form)) IN
    IF form = 0 THEN NoFormContext
    ELSE [ present |-> TRUE, formSelector |-> formSelector,
           fieldIndex |-> IndexOf(fields, i) ]

MaxSelectorDepth == 5

\* the mutant of Segment: an element with an id contributes #id without its tag
SegmentIdOnly(d, cur) ==
    LET same == { j \in Nodes(d) : d[j].parent = d[cur].parent /\ d[j].tag = d[cur].tag } IN
    IF d[cur].id # <<>> THEN Compound("", d[cur].id, "", <<>>, <<>>, 0)
    ELSE IF d[cur].parent # 0 /\ Cardinality(same) > 1
        THEN Compound(d[cur].tag, <<>>, "", <<>>, <<>>, NthOfType(d, cur))
    ELSE Compound(d[cur].tag, <<>>, "", <<>>, <<>>, 0)

\* one segment of the structural selector
Segment(d, cur) ==
    LET testid == GetAttribute(d, cur, "data-testid")
        same == { j \in Nodes(d) : d[j].parent = d[cur].parent /\ d[j].tag = d[cur].tag } IN
    IF d[cur].id # <<>> THEN Compound(d[cur].tag, d[cur].id, "", <<>>, <<>>, 0)
    ELSE IF testid # <<>> THEN Compound(d[cur].tag, <<>>, "data-testid", testid, <<>>, 0)
    ELSE IF d[cur].aria # <<>> THEN Compound(d[cur].tag, <<>>, "aria-label", d[cur].aria, <<>>, 0)
    ELSE IF d[cur].parent # 0 /\ Cardinality(same) > 1
        THEN Compound(d[cur].tag, <<>>, "", <<>>, <<>>, NthOfType(d, cur))
    ELSE Compound(d[cur].tag, <<>>, "", <<>>, <<>>, 0)

\* the segments from cur upwards: at most `left` of them, stopping at an id
RECURSIVE Segments(_, _, _)
Segments(d, cur, left) ==
    IF cur = 0 \/ left = 0 THEN <<>>
    ELSE IF d[cur].id # <<>> THEN << Segment(d, cur) >>
    ELSE Append(Segments(d, d[cur].parent, left - 1), Segment(d, cur))

\* a selector that goes up twice as far
makeSelectorDeep(d, i) == Chain(Segments(d, i, 2 * MaxSelectorDepth))

\* makeSelector(el)
makeSelector(d, i) == Chain(Segments(d, i, MaxSelectorDepth))

\* Array.from(new Set(q)): the first occurrence of each member, in order
RECURSIVE Dedupe(_)
Dedupe(q) ==
    IF q = <<>> THEN <<>>
    ELSE LET init == Dedupe(SubSeq(q, 1, Len(q) - 1)) IN
         IF q[Len(q)] \in SeqToSet(init) THEN init ELSE Append(init, q[Len(q)])

Attr(tag, attr, val) == Chain(<< Compound(tag, <<>>, attr, val, <<>>, 0) >>)

generateRobustLocator(d, i) ==
    LET e == d[i]
        testId == getTestId(d, i)
        labelText == IF IsFormField(d, i) THEN getAssociatedLabelText(d, i) ELSE <<>>
        formContext == IF IsFormField(d, i) THEN getFormContext(d, i) ELSE NoFormContext
        classSelector == generateClassSelector(d, i)
        structuralSelector == makeSelector(d, i)
        selectors ==
            (IF testId # <<>> THEN << Attr("", "data-testid", testId) >> ELSE <<>>)
            \o (IF e.id # <<>> /\ ~HashLikeId(e.id)
                THEN << Chain(<< Compound("", e.id, "", <<>>, <<>>, 0) >>) >> ELSE <<>>)
            \o (IF e.name # <<>> THEN << Attr(e.tag, "name", e.name) >> ELSE <<>>)
            \o (IF e.aria # <<>> THEN << Attr("", "aria-label", e.aria) >> ELSE <<>>)
            \o (IF e.placeholder # <<>> THEN << Attr(e.tag, "placeholder", e.placeholder) >> ELSE <<>>)
            \o (IF e.title # <<>> THEN << Attr(e.tag, "title", e.title) >> ELSE <<>>)
            \o (IF e.tag = "img" /\ e.alt # <<>> THEN << Attr("img", "alt", e.alt) >> ELSE <<>>)
            \o (IF formContext.present THEN << FieldsOf(formContext.formSelector) >> ELSE <<>>)
            \o (IF classSelector # <<>> THEN << Chain(classSelector) >> ELSE <<>>)
            \o << structuralSelector >> IN
    [ primary |-> Head(selectors),
      fallbacks |-> Dedupe(Tail(selectors)),
      metadata |-> [ tagName |-> e.tag, testId |-> testId, ariaLabel |-> e.aria,
                     role |-> inferRole(d, i), text |-> getVisibleText(d, i),
                     placeholder |-> e.placeholder, title |-> e.title,
                     labelText |-> labelText, formContext |-> formContext ] ]

-----------------------------------------------------------------------------
(* The in-page resolver.                                                    *)

\* String.prototype.toLowerCase on the letters A-Z
LowerOf(ch) ==
    IF ch \in UpperChars
    THEN CHOOSE lc \in LowerChars :
            \E k \in 1..26 : /\ << "A", "B", "C", "D", "E", "F", "G", "H", "I", "J", "K", "L", "M",
                                   "N", "O", "P", "Q", "R", "S", "T", "U", "V", "W", "X", "Y", "Z" >>[k] = ch
                             /\ << "a", "b", "c", "d", "e", "f", "g", "h", "i", "j", "k", "l", "m",
                                   "n", "o", "p", "q", "r", "s", "t", "u", "v", "w", "x", "y", "z" >>[k] = lc
    ELSE ch

\* replace(/\s+/g, " "): every run of spaces becomes one space
RECURSIVE CollapseSpaces(_)
CollapseSpaces(s) ==
    IF Len(s) < 2 THEN s
    ELSE IF s[1] = " " /\ s[2] = " " THEN CollapseSpaces(Tail(s))
    ELSE <<s[1]>> \o CollapseSpaces(Tail(s))

normalizeText(s) == Trim(CollapseSpaces([ k \in 1..Len(s) |-> LowerOf(s[k]) ]))

\* the role the verifier infers from the tag, "" for null
getImplicitRoleForElement(d, i) ==
    CASE d[i].tag = "button" -> "button"
      [] d[i].tag = "input" ->
            IF d[i].type \in {"", "text"} THEN "textbox"
            ELSE IF d[i].type = "checkbox" THEN "checkbox"
            ELSE IF d[i].type = "radio" THEN "radio"
            ELSE IF d[i].type \in {"button", "submit"} THEN "button"
            ELSE ""
      [] d[i].tag = "textarea" -> "textbox"
      [] d[i].tag = "select" -> "combobox"
      [] OTHER -> ""

\* the role findByText filters on, "" for null (an anchor counts as a link
\* when it has an href; the anchors of the documents here all do)
getImplicitRole(d, i) ==
    CASE d[i].tag \in {"button", "input", "textarea", "select"} -> getImplicitRoleForElement(d, i)
      [] d[i].tag = "img" -> "img"
      [] d[i].tag \in {"h1", "h2", "h3", "h4", "h5", "h6"} -> "heading"
      [] d[i].tag = "a" -> "link"
      [] d[i].tag = "nav" -> "navigation"
      [] d[i].tag = "main" -> "main"
      [] d[i].tag = "aside" -> "complementary"
      [] d[i].tag = "header" -> "banner"
      [] d[i].tag = "footer" -> "contentinfo"
      [] d[i].tag = "section" -> "region"
      [] d[i].tag = "article" -> "article"
      [] d[i].tag = "form" -> "form"
      [] d[i].tag = "table" -> "table"
      [] d[i].tag \in {"ul", "ol"} -> "list"
      [] d[i].tag = "li" -> "listitem"
      [] OTHER -> ""

\* the verifier recomputes the label text and the form position as the generator does
getAssociatedLabelTextForElement(d, i) == getAssociatedLabelText(d, i)

getFormContextForElement(d, i) ==
    LET form == Closest(d, i, "form")
        fields == Ordered(d, { j \in Descendants(d, form) : IsFormField(d, j) }) IN
    IF form = 0 THEN NoFormContext
    ELSE [ NoFormContext EXCEPT !.present = TRUE, !.fieldIndex = IndexOf(fields, i) ]

LabelScore(d, el, metadata) ==
    LET labelText == getAssociatedLabelTextForElement(d, el) IN
    IF metadata.labelText # <<>> /\ IsFormField(d, el)
    THEN IF labelText = metadata.labelText THEN 100
         ELSE IF labelText # <<>> /\ Includes(labelText, metadata.labelText) THEN 50
         ELSE 0
    ELSE 0

FormContextScore(d, el, metadata) ==
    IF /\ metadata.formContext.present
       /\ getFormContextForElement(d, el).present
       /\ getFormContextForElement(d, el).fieldIndex = metadata.formContext.fieldIndex
    THEN 80 ELSE 0

\* a verifier that scores the tag and the role only
TagAndRoleScore(d, el, metadata) ==
    LET elementRole == IF d[el].role # "" THEN d[el].role ELSE getImplicitRoleForElement(d, el) IN
      (IF metadata.tagName # "" /\ d[el].tag = metadata.tagName THEN 10 ELSE 0)
    + (IF metadata.role # "" /\ elementRole = metadata.role THEN 10 ELSE 0)

\* the score verifyWithMetadata gives a candidate
MetadataScore(d, el, metadata) ==
    LET elementRole == IF d[el].role # "" THEN d[el].role ELSE getImplicitRoleForElement(d, el) IN
      LabelScore(d, el, metadata)
    + FormContextScore(d, el, metadata)
    + (IF metadata.placeholder # <<>> /\ d[el].placeholder = metadata.placeholder THEN 60 ELSE 0)
    + (IF metadata.tagName # "" /\ d[el].tag = metadata.tagName THEN 10 ELSE 0)
    + (IF metadata.role # "" /\ elementRole = metadata.role THEN 10 ELSE 0)

MIN_VERIFY_SCORE == 50

\* the scores of the candidates, in their order
RECURSIVE Scores(_, _, _)
Scores(d, candidates, metadata) ==
    IF candidates = <<>> THEN <<>>
    ELSE << MetadataScore(d, Head(candidates), metadata) >> \o Scores(d, Tail(candidates), metadata)

\* where the loop of verifyWithMetadata leaves bestMatch: at the first of the
\* highest scores (a later candidate replaces it only with a higher score)
BestIndex(scores) ==
    CHOOSE k \in 1..Len(scores) :
        /\ \A m \in 1..Len(scores) : scores[m] <= scores[k]
        /\ \A m \in 1..(k - 1) : scores[m] < scores[k]

\* bestScore when the loop ends, -1 when no candidate is visible
BestScore(d, candidates, metadata) ==
    LET visible == SelectSeq(candidates, LAMBDA el : IsVisible(d, el))
        scores == Scores(d, visible, metadata) IN
    IF visible = <<>> THEN -1 ELSE scores[BestIndex(scores)]

verifyWithMetadata(d, candidates, metadata) ==
    LET visible == SelectSeq(candidates, LAMBDA el : IsVisible(d, el))
        scores == Scores(d, visible, metadata)
        best == BestIndex(scores) IN
    IF visible = <<>> THEN 0
    ELSE IF scores[best] >= MIN_VERIFY_SCORE THEN visible[best]
    ELSE visible[1]

\* what one selector of the locator yields: the visible elements it matches
\* and the element findByLocator takes from them, 0 to go on to the next
VisibleCandidates(d, sel) == SelectSeq(QuerySelectorAll(d, sel), LAMBDA el : IsVisible(d, el))

TrySelector(d, sel, metadata) ==
    LET candidates == VisibleCandidates(d, sel) IN
    IF Len(candidates) = 1 THEN candidates[1]
    ELSE IF Len(candidates) > 1 THEN verifyWithMetadata(d, candidates, metadata)
    ELSE 0

\* the label's target: the element its for attribute names, else its first field
LabelTarget(d, label) ==
    IF d[label].for # <<>> THEN GetElementById(d, d[label].for)
    ELSE FirstFieldIn(d, Descendants(d, label))

\* the labels whose trimmed text is `text`, in document order
LabelsWithText(d, text) ==
    Ordered(d, { j \in Nodes(d) : d[j].tag = "label" /\ Trim(TextContent(d, j)) = text })

RECURSIVE LabelTargets(_, _)
LabelTargets(d, labels) ==
    IF labels = <<>> THEN <<>>
    ELSE (IF LabelTarget(d, Head(labels)) # 0 THEN << LabelTarget(d, Head(labels)) >> ELSE <<>>)
         \o LabelTargets(d, Tail(labels))

\* findByLabelText(text, { exact: true })
findByLabelText(d, text) == LabelTargets(d, LabelsWithText(d, text))

\* findByLabelTextExtended(text, { exact: true }): also the fields that follow
\* a label with that text, or share their parent with one
findByLabelTextExtended(d, text) ==
    LET results == findByLabelText(d, text)
        BySibling(i) ==
            LET prevSibling == PreviousElementSibling(d, i) IN
            prevSibling # 0 /\ d[prevSibling].tag = "label"
                /\ Trim(TextContent(d, prevSibling)) = text
        ByParent(i) ==
            LET labelInParent ==
                    IF d[i].parent = 0 THEN 0 ELSE FirstLabelIn(d, Descendants(d, d[i].parent)) IN
            labelInParent # 0 /\ labelInParent # PreviousElementSibling(d, i)
                /\ Trim(TextContent(d, labelInParent)) = text
        others == { i \in Nodes(d) : /\ IsFormField(d, i)
                                     /\ i \notin SeqToSet(results)
                                     /\ BySibling(i) \/ ByParent(i) } IN
    results \o Ordered(d, others)

\* findByTestId: the first element carrying the id under the first of the four
\* attributes that any element carries it under; 0 for null
findByTestId(d, testId) ==
    LET Hit(attr) == FirstOf(Ordered(d, { i \in Nodes(d) : GetAttribute(d, i, attr) = testId }))
        hits == SelectSeq(TestIdAttrs, LAMBDA attr : Hit(attr) # 0) IN
    IF hits = <<>> THEN 0 ELSE Hit(hits[1])

getAccessibleName(d, i) ==
    LET labelled == GetElementById(d, d[i].labelledby)
        parentLabel == Closest(d, i, "label") IN
    IF d[i].aria # <<>> THEN d[i].aria
    ELSE IF d[i].labelledby # <<>> /\ labelled # 0 THEN Trim(TextContent(d, labelled))
    ELSE IF IsFormField(d, i) /\ d[i].id # <<>> /\ LabelFor(d, d[i].id) # 0
        THEN Trim(TextContent(d, LabelFor(d, d[i].id)))
    ELSE IF IsFormField(d, i) /\ parentLabel # 0 THEN Trim(TextContent(d, parentLabel))
    ELSE IF d[i].tag = "img" THEN d[i].alt
    ELSE IF d[i].placeholder # <<>> THEN d[i].placeholder
    ELSE IF d[i].title # <<>> THEN d[i].title
    ELSE Trim(TextContent(d, i))

\* the text findByText compares for an element
ElementText(d, i) ==
    LET name == IF getAccessibleName(d, i) # <<>> THEN getAccessibleName(d, i)
                ELSE TextContent(d, i) IN
    IF Children(d, i) # <<>> /\ Trim(d[i].text) # <<>> THEN d[i].text ELSE name

\* findByText(text, { normalize: true, role })
findByText(d, text, role) ==
    LET body == FirstOf(Ordered(d, { i \in Nodes(d) : d[i].tag = "body" }))
        RoleOf(i) == IF d[i].role # "" THEN d[i].role ELSE getImplicitRole(d, i)
        hits == { i \in Nodes(d) :
                    /\ body # 0 /\ i \in Descendants(d, body)
                    /\ role = "" \/ RoleOf(i) = role
                    /\ normalizeText(ElementText(d, i)) = normalizeText(text) } IN
    Ordered(d, hits)

\* findByPlaceholder(text, { exact: true })
findByPlaceholder(d, text) == Ordered(d, { i \in Nodes(d) : d[i].placeholder = text })

FirstWithTag(d, elements, tagName) ==
    FirstOf(SelectSeq(elements, LAMBDA el : d[el].tag = tagName))

FirstIfVisible(d, elements) ==
    IF elements # <<>> /\ IsVisible(d, elements[1]) THEN elements[1] ELSE 0

\* the metadata searches of findByLocator, each 0 when it yields nothing
FuzzyByLabelText(d, metadata) ==
    LET elements == findByLabelTextExtended(d, metadata.labelText)
        matchingTag == FirstWithTag(d, elements, metadata.tagName) IN
    IF metadata.labelText = <<>> \/ elements = <<>> THEN 0
    ELSE IF metadata.tagName # "" /\ matchingTag # 0 /\ IsVisible(d, matchingTag) THEN matchingTag
    ELSE FirstIfVisible(d, elements)

FuzzyByTestId(d, metadata) ==
    LET el == findByTestId(d, metadata.testId) IN
    IF metadata.testId # <<>> /\ el # 0 /\ IsVisible(d, el) THEN el ELSE 0

FuzzyByText(d, metadata) ==
    LET elements == findByText(d, metadata.text, metadata.role)
        matchingTag == FirstWithTag(d, elements, metadata.tagName) IN
    IF metadata.text = <<>> THEN 0
    ELSE IF metadata.tagName # "" /\ matchingTag # 0 THEN matchingTag
    ELSE FirstIfVisible(d, elements)

FuzzyByPlaceholder(d, metadata) ==
    IF metadata.placeholder = <<>> THEN 0
    ELSE FirstIfVisible(d, findByPlaceholder(d, metadata.placeholder))

FuzzyByAriaLabel(d, metadata) ==
    IF metadata.ariaLabel = <<>> THEN 0
    ELSE FirstIfVisible(d, findByLabelText(d, metadata.ariaLabel))

FuzzyStages(d, metadata) ==
    << FuzzyByLabelText(d, metadata), FuzzyByTestId(d, metadata), FuzzyByText(d, metadata),
       FuzzyByPlaceholder(d, metadata), FuzzyByAriaLabel(d, metadata) >>

\* the first non-zero member of a sequence of nodes, 0 when all are 0
FirstHit(q) == FirstOf(SelectSeq(q, LAMBDA el : el # 0))

\* the selectors of a locator in the order findByLocator tries them
SelectorsOf(locator) == << locator.primary >> \o locator.fallbacks

\* the first selector of sels, from position k on, that yields an element: its
\* position, 0 when none does
RECURSIVE DecidingFrom(_, _, _, _)
DecidingFrom(d, sels, metadata, k) ==
    IF k > Len(sels) THEN 0
    ELSE IF TrySelector(d, sels[k], metadata) # 0 THEN k
    ELSE DecidingFrom(d, sels, metadata, k + 1)

\* the position in SelectorsOf of the selector findByLocator returns from, 0 if none
DecidingSelector(d, locator) == DecidingFrom(d, SelectorsOf(locator), locator.metadata, 1)

\* findByLocator: primary, then the fallbacks, then the metadata searches
findByLocator(d, locator) ==
    LET k == DecidingSelector(d, locator) IN
    IF k # 0 THEN TrySelector(d, SelectorsOf(locator)[k], locator.metadata)
    ELSE FirstHit(FuzzyStages(d, locator.metadata))

-----------------------------------------------------------------------------
(* Recording an element and finding it again: the documents are small pages *)
(* of two shapes, a form of labelled inputs and a toolbar of buttons.       *)

RowCounts == 2..MaxRows

LabelTexts == { <<>>, <<"A">>, <<"A", "B">>, <<" ", "B", " ">> }

FormIds == { <<>>, <<"f">> }

Layouts == { "wrapped", "flat" }

Placeholders == { <<>>, <<"p">> }

FieldClass == <<"f", "i", "e", "l", "d">>

\* html > body > form > (div > label + input)*   when wrapped
\* html > body > form > (label + input)*         when flat
\* every input with the same class and placeholder; the input of row `hidden`
\* is not displayed
FormDocument(formId, layout, labels, placeholder, hidden) ==
    LET n == Len(labels)
        per == IF layout = "wrapped" THEN 3 ELSE 2
        Row(k) == ((k - 4) \div per) + 1
        Pos(k) == ((k - 4) % per) + 1
        Wrapper(r) == 3 + per * (r - 1) + 1
        Holder(k) == IF layout = "wrapped" THEN Wrapper(Row(k)) ELSE 3
        IsLabel(k) == Pos(k) = per - 1
        IsInput(k) == Pos(k) = per IN
    [ k \in 1..(3 + per * n) |->
        IF k = 1 THEN Elem("html", 0)
        ELSE IF k = 2 THEN Elem("body", 1)
        ELSE IF k = 3 THEN [ Elem("form", 2) EXCEPT !.id = formId ]
        ELSE IF IsInput(k)
            THEN [ Elem("input", Holder(k)) EXCEPT
                        !.type = "text", !.cls = << FieldClass >>,
                        !.placeholder = placeholder,
                        !.display = IF hidden = Row(k) THEN "none" ELSE "block" ]
        ELSE IF IsLabel(k) THEN [ Elem("label", Holder(k)) EXCEPT !.text = labels[Row(k)] ]
        ELSE Elem("div", 3) ]

FormDocuments ==
    { FormDocument(formId, layout, labels, placeholder, hidden) :
        formId \in FormIds, layout \in Layouts,
        labels \in UNION { [1..n -> LabelTexts] : n \in RowCounts },
        placeholder \in Placeholders, hidden \in 0..1 }

ButtonKinds == { "plain", "testid", "test", "id", "hashid", "aria", "hidden", "renamed" }

ButtonClass == <<"b", "t", "n">>

\* a button of the toolbar: all share a class and, but for "renamed", a text
Button(kind, parent) ==
    LET b == [ Elem("button", parent) EXCEPT !.cls = << ButtonClass >>, !.text = <<"G", "o">> ] IN
    CASE kind = "testid" -> [ b EXCEPT !.testAttr = "data-testid", !.testId = <<"t">> ]
      [] kind = "test" -> [ b EXCEPT !.testAttr = "data-test", !.testId = <<"t">> ]
      [] kind = "id" -> [ b EXCEPT !.id = <<"g", "o">> ]
      [] kind = "hashid" -> [ b EXCEPT !.id = <<"a", "1", "b", "2", "c", "3", "d", "4">> ]
      [] kind = "aria" -> [ b EXCEPT !.aria = <<"g">> ]
      [] kind = "hidden" -> [ b EXCEPT !.display = "none" ]
      [] kind = "renamed" -> [ b EXCEPT !.text = <<"g", "o", " ">> ]
      [] OTHER -> b

\* html > body > div > button*
ButtonDocument(kinds) ==
    [ k \in 1..(3 + Len(kinds)) |->
        IF k = 1 THEN Elem("html", 0)
        ELSE IF k = 2 THEN Elem("body", 1)
        ELSE IF k = 3 THEN Elem("div", 2)
        ELSE Button(kinds[k - 3], 3) ]

ButtonDocuments ==
    { ButtonDocument(kinds) : kinds \in UNION { [1..n -> ButtonKinds] : n \in RowCounts } }

Documents == FormDocuments \cup ButtonDocuments

NoLocator ==
    [ primary |-> Chain(<<>>), fallbacks |-> <<>>,
      metadata |-> [ tagName |-> "", testId |-> <<>>, ariaLabel |-> <<>>, role |-> "",
                     text |-> <<>>, placeholder |-> <<>>, title |-> <<>>,
                     labelText |-> <<>>, formContext |-> NoFormContext ] ]

\* no candidate has been scored in the poll
NoPick == [ element |-> 0, selector |-> 0, elementIndex |-> 0, changed |-> FALSE ]

ResolveIdle ==
    /\ rDoc = <<>> /\ rTarget = 0 /\ rLocator = NoLocator /\ rFound = 0 /\ rPc = "idle"
    /\ rPicked = NoPick

ResolveInit ==
    /\ rDoc \in Documents
    /\ rTarget = 0 /\ rLocator = NoLocator /\ rFound = 0 /\ rPc = "loaded"
    /\ rPicked = NoPick

\* the recorder's generateRobustLocator(element) for an element of the page
Generate ==
    /\ rPc = "loaded"
    /\ \E element \in Nodes(rDoc) :
        /\ rTarget' = element
        /\ rLocator' = generateRobustLocator(rDoc, element)
    /\ rPc' = "recorded"
    /\ UNCHANGED << rDoc, rFound, rPicked >>
    /\ UNCHANGED otherThanResolve

\* findByLocator(locator) on the same page
Resolve ==
    /\ rPc = "recorded"
    /\ rFound' = findByLocator(rDoc, rLocator)
    /\ rPc' = "resolved"
    /\ UNCHANGED << rDoc, rTarget, rLocator, rPicked >>
    /\ UNCHANGED otherThanResolve

ResolveNext == Generate \/ Resolve

-----------------------------------------------------------------------------
(* The polling loop of the resolvers, on a clock in milliseconds.  Timers   *)
(* are exact; a synchronous scan of the document takes no time; a poll of a *)
(* remote runner awaits page.$$eval / page.$$ round trips, which take time. *)

LOCATOR_POLL_INTERVAL_MS == 100
DefaultTimeoutMs == 5000

\* the timeouts a caller hands in (0: none given)
TimeoutOptions == { 0, 100, 250 }

\* const timeout = options?.timeout || 5000
EffectiveTimeout(opt) == IF opt = 0 THEN DefaultTimeoutMs ELSE opt

\* how long the page evaluations of one poll take
EvalLatencies(resolver) ==
    IF resolver = "waitForLocator" THEN { 0 } ELSE { 0, 20, MaxEvalMs }

\* what one poll can find: with an element that never appears, no candidate
\* that is visible and interactable or (remote runners) only candidates below
\* the confidence threshold
PollOutcomes(resolver, appears) ==
    { "none" }
      \cup (IF resolver = "getElement" THEN { "ambiguous" } ELSE {})
      \cup (IF appears THEN { "found" } ELSE {})

\* how many fallback selectors the locator lists besides its primary
FallbackCounts == { 0, 2 }

\* the error a resolver throws: its kind and how many of the locator's selectors
\* its message lists
PollError(kind, reported) == [ kind |-> kind, reported |-> reported ]
NoPollError == PollError("none", 0)

\* waitForLocator: `Timeout waiting for element. Primary selector: ${locator.primary}`
\* getElement / resolveLocator: `Failed to resolve locator. Tried
\* selectors=${JSON.stringify(selectors)}, metadata=..., reason=${lastError}`
ThrownError(resolver, fallbacks, lastError) ==
    IF resolver = "waitForLocator" THEN PollError("Timeout", 1)
    ELSE PollError(IF lastError = "AMBIGUOUS_LOCATOR" THEN "AmbiguousLocator"
                   ELSE "NotFound",
                   1 + fallbacks)

PollIdle ==
    /\ pResolver = "none"
    /\ pTimeoutOpt = 0
    /\ pAppears = FALSE
    /\ pNow = 0
    /\ pPc = "idle"
    /\ pLastError = "No candidates found"
    /\ pPolls = 0
    /\ pFallbacks = 0
    /\ pError = NoPollError
    /\ pBelow = FALSE

PollInit ==
    /\ pResolver \in {"waitForLocator", "getElement"}
    /\ pTimeoutOpt \in TimeoutOptions
    /\ pAppears \in BOOLEAN
    /\ pNow = 0
    /\ pPc = "check"
    /\ pLastError = "No candidates found"
    /\ pPolls = 0
    /\ pFallbacks \in FallbackCounts
    /\ pError = NoPollError
    /\ pBelow = FALSE

\* the mutant of LoopCondition: a loop that never looks at the clock again once started
LoopConditionFirstOnly(now, timeout) == now < timeout \/ now > 0

\* while (Date.now() - startedAt < timeout)
LoopCondition(now, timeout) == now < timeout

\* the loop condition holds: the body runs
PollEnter ==
    /\ pPc = "check"
    /\ LoopCondition(pNow, EffectiveTimeout(pTimeoutOpt))
    /\ pPc' = "poll"
    /\ UNCHANGED <<pResolver, pTimeoutOpt, pAppears, pNow, pLastError, pPolls,
                   pFallbacks, pError, pBelow>>
    /\ UNCHANGED otherThanPoll

\* the loop condition fails: throw new Error("Timeout waiting for element" /
\* "Failed to resolve locator")
PollTimeout ==
    /\ pPc = "check"
    /\ ~LoopCondition(pNow, EffectiveTimeout(pTimeoutOpt))
    /\ pPc' = "thrown"
    /\ pError' = ThrownError(pResolver, pFallbacks, pLastError)
    /\ UNCHANGED <<pResolver, pTimeoutOpt, pAppears, pNow, pLastError, pPolls,
                   pFallbacks, pBelow>>
    /\ UNCHANGED otherThanPoll

\* one poll: findByLocator (in-page) or await pickBestCandidate (remote)
PollFind ==
    /\ pPc = "poll"
    /\ \E d \in EvalLatencies(pResolver), found \in PollOutcomes(pResolver, pAppears) :
          /\ pNow' = pNow + d
          /\ pPc' = IF found = "found" THEN "returned" ELSE "sleep"
          /\ pLastError' = IF found = "ambiguous" THEN "AMBIGUOUS_LOCATOR" ELSE pLastError
          /\ pBelow' = (pBelow \/ found = "ambiguous")
    /\ pPolls' = pPolls + 1
    /\ UNCHANGED <<pResolver, pTimeoutOpt, pAppears, pFallbacks, pError>>
    /\ UNCHANGED otherThanPoll

\* await new Promise((resolve) => setTimeout(resolve, pollInterval))
PollSleep ==
    /\ pPc = "sleep"
    /\ pNow' = pNow + LOCATOR_POLL_INTERVAL_MS
    /\ pPc' = "check"
    /\ UNCHANGED <<pResolver, pTimeoutOpt, pAppears, pLastError, pPolls,
                   pFallbacks, pError, pBelow>>
    /\ UNCHANGED otherThanPoll

PollNext == PollEnter \/ PollTimeout \/ PollFind \/ PollSleep

-----------------------------------------------------------------------------
(* run(flow, page, options)                                                 *)

\* the key extractedData[`step_${index}`] is written under
StepKey(i) == [ prefix |-> "step_", index |-> i ]

NoRunResult ==
    [ returned |-> FALSE, success |-> FALSE, error |-> "none",
      failedStepIndex |-> -1, extractedData |-> <<>> ]
RunResult(success, error, failed, data) ==
    [ returned |-> TRUE, success |-> success, error |-> error,
      failedStepIndex |-> failed, extractedData |-> data ]

\* the steps the flows of the runner model are made of
RunSteps ==
    { [BaseStep("click") EXCEPT !.locator = TRUE],
      [BaseStep("click") EXCEPT !.locator = TRUE, !.url = TRUE],
      [BaseStep("extract") EXCEPT !.locator = TRUE, !.prop = "innerText"],
      BaseStep("keyboard"),
      [BaseStep("navigate") EXCEPT !.url = TRUE] }

Flows == UNION { [1..n -> RunSteps] : n \in 0..MaxSteps }

RunIdle ==
    /\ backend = "none"
    /\ flow = <<>>
    /\ stopOnError = "unset"
    /\ pageUrl = "about:blank"
    /\ pc = "idle"
    /\ index = 0
    /\ extractedData = <<>>
    /\ runResult = NoRunResult
    /\ implicitNav = "none"
    /\ started = <<>>
    /\ produced = <<>>
    /\ stopRequested = -1

RunInit ==
    /\ backend \in {"puppeteer", "playwright"}
    /\ flow \in Flows
    /\ stopOnError \in {"unset", "true", "false"}
    /\ pageUrl \in {"about:blank", "https://site"}
    /\ pc = "start"
    /\ index = 0
    /\ extractedData = <<>>
    /\ runResult = NoRunResult
    /\ implicitNav = "none"
    /\ started = <<>>
    /\ produced = <<>>
    /\ stopRequested = -1

\* the condition under which PlaywrightFlowRunner.run navigates implicitly
NeedsImplicitNav ==
    /\ backend = "playwright"
    /\ pageUrl = "about:blank"
    /\ Len(flow) > 0
    /\ flow[1].type # "navigate"
    /\ flow[1].url

\* run() reaches its loop without an implicit navigation
RunBegin ==
    /\ pc = "start"
    /\ ~NeedsImplicitNav
    /\ pc' = "loop"
    /\ UNCHANGED <<backend, flow, stopOnError, index, extractedData, runResult,
                   pageUrl, implicitNav, started, produced, stopRequested>>
    /\ UNCHANGED otherThanRun

\* await page.goto(firstStep.url) resolves
ImplicitNavOk ==
    /\ pc = "start"
    /\ NeedsImplicitNav
    /\ pageUrl' = "https://site"
    /\ implicitNav' = "ok"
    /\ pc' = "loop"
    /\ UNCHANGED <<backend, flow, stopOnError, index, extractedData, runResult,
                   started, produced, stopRequested>>
    /\ UNCHANGED otherThanRun

\* the mutant of ImplicitNavFail: a run that goes on to its loop after the
\* implicit navigation failed
ImplicitNavFailIgnored ==
    /\ pc = "start"
    /\ NeedsImplicitNav
    /\ implicitNav' = "failed"
    /\ pc' = "loop"
    /\ UNCHANGED <<backend, flow, stopOnError, index, extractedData, runResult,
                   pageUrl, started, produced, stopRequested>>
    /\ UNCHANGED otherThanRun

\* await page.goto(firstStep.url) throws: run returns early
ImplicitNavFail ==
    /\ pc = "start"
    /\ NeedsImplicitNav
    /\ implicitNav' = "failed"
    /\ runResult' = RunResult(FALSE, "Implicit navigation failed", 0, extractedData)
    /\ pc' = "done"
    /\ UNCHANGED <<backend, flow, stopOnError, index, extractedData, pageUrl,
                   started, produced, stopRequested>>
    /\ UNCHANGED otherThanRun

\* the loop takes the next step and calls runStep (after the optional stepDelay sleep,
\* which changes no state of the run)
RunStepCall ==
    /\ pc = "loop"
    /\ index < Len(flow)
    /\ started' = Append(started, index)
    /\ pc' = "inStep"
    /\ UNCHANGED <<backend, flow, stopOnError, index, extractedData, runResult,
                   pageUrl, implicitNav, produced, stopRequested>>
    /\ UNCHANGED otherThanRun

\* mutants of AfterStep: a loop body that never stops at a failure, one that
\* stops at every failure, and one that advances the index by two
AfterStepNeverStops(result) ==
    /\ extractedData' =
          IF Truthy(result.extractedData)
          THEN (StepKey(index) :> result.extractedData) @@ extractedData
          ELSE extractedData
    /\ index' = index + 1
    /\ pc' = "loop"
    /\ UNCHANGED runResult

AfterStepAlwaysStops(result) ==
    IF ~result.success THEN
        /\ runResult' = RunResult(FALSE, result.error, index, extractedData)
        /\ pc' = "done"
        /\ UNCHANGED <<index, extractedData>>
    ELSE
        /\ extractedData' =
              IF Truthy(result.extractedData)
              THEN (StepKey(index) :> result.extractedData) @@ extractedData
              ELSE extractedData
        /\ index' = index + 1
        /\ pc' = "loop"
        /\ UNCHANGED runResult

AfterStepSkips(result) ==
    IF ~result.success /\ stopOnError # "false" THEN
        /\ runResult' = RunResult(FALSE, result.error, index, extractedData)
        /\ pc' = "done"
        /\ UNCHANGED <<index, extractedData>>
    ELSE
        /\ extractedData' =
              IF Truthy(result.extractedData)
              THEN (StepKey(index) :> result.extractedData) @@ extractedData
              ELSE extractedData
        /\ index' = IF index + 2 <= Len(flow) THEN index + 2 ELSE index + 1
        /\ pc' = "loop"
        /\ UNCHANGED runResult

\* what the loop body does with the awaited result of runStep
AfterStep(result) ==
    IF result.kind = "thrown" THEN
        /\ runResult' = RunResult(FALSE, result.error, index, extractedData)
        /\ pc' = "done"
        /\ UNCHANGED <<index, extractedData>>
    ELSE IF ~result.success /\ stopOnError # "false" THEN
        /\ runResult' = RunResult(FALSE, result.error, index, extractedData)
        /\ pc' = "done"
        /\ UNCHANGED <<index, extractedData>>
    ELSE
        /\ extractedData' =
              IF Truthy(result.extractedData)
              THEN (StepKey(index) :> result.extractedData) @@ extractedData
              ELSE extractedData
        /\ index' = index + 1
        /\ pc' = "loop"
        /\ UNCHANGED runResult

\* runStep returns and the loop body handles its result
RunStepReturn ==
    /\ pc = "inStep"
    /\ \E result \in { RunStep(backend, flow[index + 1], env) : env \in PageEnvs(backend) } :
          /\ produced' = Append(produced, result)
          /\ AfterStep(result)
    /\ UNCHANGED <<backend, flow, stopOnError, pageUrl, implicitNav, started, stopRequested>>
    /\ UNCHANGED otherThanRun

\* the environment signals a stop while a step is in flight.  run() takes a
\* flow, a page and RunnerOptions { timeout, stopOnError, variables }: nothing
\* of it reads the signal.
SignalStop ==
    /\ pc = "inStep"
    /\ stopRequested = -1
    /\ stopRequested' = index
    /\ UNCHANGED <<backend, flow, stopOnError, pc, index, extractedData, runResult,
                   pageUrl, implicitNav, started, produced>>
    /\ UNCHANGED otherThanRun

\* the loop is over: return { success: true, extractedData }
RunFinish ==
    /\ pc = "loop"
    /\ index = Len(flow)
    /\ runResult' = RunResult(TRUE, "none", -1, extractedData)
    /\ pc' = "done"
    /\ UNCHANGED <<backend, flow, stopOnError, index, extractedData, pageUrl,
                   implicitNav, started, produced, stopRequested>>
    /\ UNCHANGED otherThanRun

RunNext ==
    \/ RunBegin
    \/ ImplicitNavOk
    \/ ImplicitNavFail
    \/ RunStepCall
    \/ RunStepReturn
    \/ RunFinish

-----------------------------------------------------------------------------
(* Claims about run()                                                       *)

Done == pc = "done"

\* the 0-based indexes 0 .. n-1 in order
RECURSIVE UpTo(_)
UpTo(n) == IF n = 0 THEN <<>> ELSE Append(UpTo(n - 1), n - 1)

\* the 0-based indexes of the steps whose runStep has returned a failure
FailedIndexes == { i - 1 : i \in { j \in 1..Len(produced) : ~produced[j].success } }

Min(S) == CHOOSE x \in S : \A y \in S : x <= y

\* the key the spec gives the data of step i: its index
IndexKey(i) == [ prefix |-> "", index |-> i ]

\* C1: with stopOnError unset or true, once a step has failed run returns
\* success=false with failedStepIndex = the first failing step's index, no step
\* with a larger index was executed, and the returned extractedData holds only
\* values produced by steps with a smaller index.
C1_StopOnFirstFailure ==
    (stopOnError \in {"unset", "true"} /\ FailedIndexes # {}) =>
        /\ Done
        /\ runResult.returned
        /\ runResult.success = FALSE
        /\ runResult.failedStepIndex = Min(FailedIndexes)
        /\ \A k \in 1..Len(started) : started[k] <= runResult.failedStepIndex
        /\ \A key \in DOMAIN runResult.extractedData :
              /\ key.index < runResult.failedStepIndex
              /\ runResult.extractedData[key] = produced[key.index + 1].extractedData

C1_Witness ==
    /\ Done
    /\ stopOnError = "unset"
    /\ runResult.failedStepIndex = 2
    /\ FailedIndexes = {2}
    /\ Cardinality(DOMAIN runResult.extractedData) = 2

\* C2: steps run strictly in list order: the calls of runStep are for the indexes
\* 0, 1, 2, ... with none skipped, repeated or reordered, a call is made only when
\* every earlier call has returned, and a run that was not aborted has called
\* runStep for every step.
C2_StrictOrder ==
    /\ started = UpTo(Len(started))
    /\ Len(started) <= Len(flow)
    /\ IF pc = "inStep" THEN Len(started) = Len(produced) + 1
                        ELSE Len(started) = Len(produced)
    /\ (pc \in {"loop", "inStep"}) => index = Len(produced)
    /\ (Done /\ runResult.success) => Len(started) = Len(flow)

C2_Witness ==
    /\ Done
    /\ runResult.success
    /\ started = <<0, 1, 2>>
    /\ Len(produced) = 3

\* C3 (as claimed): every step that succeeds and returns extractedData has its
\* value in the RunResult's extractedData under the step's index, and the map has
\* no other entry.
C3_DataUnderIndex ==
    Done =>
        /\ \A i \in 1..Len(produced) :
              (produced[i].success /\ produced[i].extractedData.def) =>
                  /\ IndexKey(i - 1) \in DOMAIN runResult.extractedData
                  /\ runResult.extractedData[IndexKey(i - 1)] = produced[i].extractedData
        /\ \A key \in DOMAIN runResult.extractedData :
              /\ key.index + 1 \in 1..Len(produced)
              /\ key = IndexKey(key.index)
              /\ produced[key.index + 1].success
              /\ produced[key.index + 1].extractedData.def

\* C4: with stopOnError=false a failing step does not abort the run: once the loop
\* has been entered, run ends only after runStep was called exactly once for every
\* step of the flow, in order, however many of them failed.
C4_ContinueOnError ==
    (stopOnError = "false" /\ Done /\ implicitNav # "failed") =>
        /\ started = UpTo(Len(flow))
        /\ Len(produced) = Len(flow)

C4_Witness ==
    /\ stopOnError = "false"
    /\ Done
    /\ Len(flow) = 3
    /\ Cardinality(FailedIndexes) >= 2
    /\ 0 \in FailedIndexes

\* C5 (as claimed): with stopOnError=false, a run in which a step failed returns a
\* RunResult that reports the failure.
C5_FailureRecorded ==
    (stopOnError = "false" /\ Done /\ FailedIndexes # {}) =>
        \/ runResult.success = FALSE
        \/ runResult.error # "none"
        \/ runResult.failedStepIndex # -1


-----------------------------------------------------------------------------
(* Claims about runStep / executeStep                                       *)

\* the step acts on an element, and the element could not be resolved
ResolutionFailed ==
    /\ \/ sStep.type \in {"click", "type", "select", "extract"}
       \/ sStep.locator /\ sStep.type \in {"waitFor", "keyboard", "screenshot"}
    /\ ~(sStep.locator /\ sEnv.found)

-----------------------------------------------------------------------------
(* Claims about the polling loop                                            *)

C7_InPageWithinTimeoutPlusPoll ==
    (pResolver = "waitForLocator" /\ pPc \in {"check", "poll", "sleep", "thrown"}) =>
        pNow < EffectiveTimeout(pTimeoutOpt) + LOCATOR_POLL_INTERVAL_MS

\* the visible candidates of the selector findByLocator returned from
DecidingCandidates ==
    VisibleCandidates(rDoc, SelectorsOf(rLocator)[DecidingSelector(rDoc, rLocator)])

MIN_CONFIDENCE_SCORE == 80

\* C8 (as claimed): when the selector the resolver returns from has more than one
\* visible candidate, the candidate it returns has a score of at least 80.
C8_AmbiguousNeedsConfidence ==
    (/\ rPc = "resolved"
     /\ DecidingSelector(rDoc, rLocator) # 0
     /\ Len(DecidingCandidates) > 1)
        => BestScore(rDoc, DecidingCandidates, rLocator.metadata) >= MIN_CONFIDENCE_SCORE

\* C9 (as claimed): resolving the locator generated for an element, on the
\* unchanged document, returns that element.  Elements that are not displayed
\* are left out: the resolver must never return them.
C9_RoundTrip ==
    (rPc = "resolved" /\ IsVisible(rDoc, rTarget)) => rFound = rTarget

\* the fields of the form of i that, like i, directly follow a label
LabelledPeers(d, i) ==
    { j \in Nodes(d) \ {i} :
        /\ IsFormField(d, j)
        /\ Closest(d, j, "form") = Closest(d, i, "form")
        /\ PreviousElementSibling(d, j) # 0
        /\ d[PreviousElementSibling(d, j)].tag = "label" }

PrecedingLabelText(d, i) == Trim(TextContent(d, PreviousElementSibling(d, i)))

\* i is a displayed field of a form, directly follows a label, and no other such
\* field of the form follows a label with the same text
DistinctlyLabelled(d, i) ==
    /\ IsFormField(d, i) /\ IsVisible(d, i)
    /\ Closest(d, i, "form") # 0
    /\ PreviousElementSibling(d, i) # 0
    /\ d[PreviousElementSibling(d, i)].tag = "label"
    /\ \A j \in LabelledPeers(d, i) : PrecedingLabelText(d, j) # PrecedingLabelText(d, i)

\* C10: for a displayed input of a form that follows a label whose text no other
\* labelled input of the form shares, the generated locator carries a labelText
\* that the locator of none of those inputs carries, and resolving it returns
\* that input.
C10_LabelTextDifferentiates ==
    (rPc \in {"recorded", "resolved"} /\ DistinctlyLabelled(rDoc, rTarget)) =>
        /\ \A j \in LabelledPeers(rDoc, rTarget) :
                generateRobustLocator(rDoc, j).metadata.labelText # rLocator.metadata.labelText
        /\ rPc = "resolved" => rFound = rTarget

\* an input that is not the first of several displayed inputs its primary
\* selector matches was recorded and found again by its label
C10_Witness ==
    /\ rPc = "resolved"
    /\ DistinctlyLabelled(rDoc, rTarget)
    /\ rLocator.metadata.labelText # <<>>
    /\ Len(VisibleCandidates(rDoc, rLocator.primary)) > 1
    /\ VisibleCandidates(rDoc, rLocator.primary)[1] # rTarget
    /\ \E j \in LabelledPeers(rDoc, rTarget) :
            /\ IsVisible(rDoc, j)
            /\ Includes(PrecedingLabelText(rDoc, j), rLocator.metadata.labelText)
    /\ rFound = rTarget

\* the page handed to run() was at about:blank (an implicit navigation that
\* went through is the one thing that moves it before the loop)
StartedAtBlankPage == pageUrl = "about:blank" \/ implicitNav = "ok"

\* the case in which the runner is to navigate implicitly
ImplicitNavCase ==
    /\ StartedAtBlankPage
    /\ Len(flow) > 0
    /\ flow[1].type # "navigate"
    /\ flow[1].url

\* C11 (as claimed): once run() is past its start, an implicit navigation was
\* made (once, before any step) exactly when the page was blank and the first
\* step carries a url and is not a navigate step.
C11_ImplicitNavigation ==
    pc \in {"loop", "inStep", "done"} =>
        /\ (implicitNav # "none") <=> ImplicitNavCase
        /\ implicitNav = "failed" => started = <<>>

\* C12: when the implicit navigation fails, run() has returned success=false
\* with failedStepIndex 0 and an empty extractedData, and runStep was called
\* for no step.
C12_ImplicitNavFailureAborts ==
    implicitNav = "failed" =>
        /\ pc = "done"
        /\ runResult.returned /\ ~runResult.success
        /\ runResult.failedStepIndex = 0
        /\ runResult.extractedData = <<>>
        /\ started = <<>> /\ produced = <<>>

\* the implicit navigation of a flow of several steps failed
C12_Witness ==
    /\ implicitNav = "failed"
    /\ Len(flow) > 1
    /\ runResult.returned

-----------------------------------------------------------------------------
(* Claims about the type step                                               *)

\* the texts the fill of the executed step entered
EnteredTexts == { sResult.acts[i].text : i \in { j \in DOMAIN sResult.acts :
                                                  sResult.acts[j].op = "fill" } }

\* originalText when it is present and non-empty, text otherwise
ReplayText == FirstTruthy(sStep.originalText, sStep.text)

\* C13 (as claimed): the text a type step enters is its originalText when that
\* is present and non-empty and its text otherwise, as recorded or with the
\* placeholders resolved; the masked text is not entered when there is an
\* originalText.
C13_OriginalTextEntered ==
    (sPc = "done" /\ sStep.type = "type") =>
        EnteredTexts \subseteq { ReplayText, resolveText(ReplayText, sEnv.variables) }

\* how many times the executed step did op to the page
ActCount(op) == Cardinality({ i \in DOMAIN sResult.acts : sResult.acts[i].op = op })

EnterPresses ==
    Cardinality({ i \in DOMAIN sResult.acts : sResult.acts[i] = EnterAct })

\* a type step with submit set came back with success
SubmittingTypeSucceeded ==
    /\ sPc = "done"
    /\ sStep.type = "type" /\ sStep.submit
    /\ sResult.success

\* C14 (as claimed): a type step with submit=true that succeeds submits the
\* owning form exactly once and presses no Enter when the control has an owning
\* form, and presses Enter exactly once when it has none.
C14_SubmitFormOrEnter ==
    SubmittingTypeSucceeded =>
        IF sEnv.hasForm THEN ActCount("submit") = 1 /\ EnterPresses = 0
        ELSE EnterPresses = 1

\* what holds of the in-page executor alone
C14_InPageSubmitFormOrEnter ==
    sBackend = "dom" => C14_SubmitFormOrEnter

-----------------------------------------------------------------------------
(* Claims about the extract step                                            *)

\* an extract step with prop "value" read a text input and came back with success
ValueExtracted ==
    /\ sPc = "done"
    /\ sStep.type = "extract" /\ sStep.prop = "value"
    /\ sEnv.found /\ sEnv.tag = "input"
    /\ sResult.success

\* C15 (as claimed): an extract step with prop "value" on a text input returns
\* the input's current value as extractedData, untrimmed, and not the text
\* content of the element.
C15_ExtractValueExact ==
    ValueExtracted => sResult.extractedData = sEnv.value

\* what holds of the in-page executor alone
C15_InPageExtractValueExact ==
    sBackend = "dom" => C15_ExtractValueExact

\* an extract step met an element that is visible but not interactable, on a
\* page that lets the element be read
ExtractOfDisabled ==
    /\ sPc = "done"
    /\ sStep.type = "extract" /\ sStep.locator
    /\ sEnv.found /\ ~sEnv.interactable
    /\ sEnv.actionOk
    /\ ~(sStep.prop = "value" /\ sEnv.tag = "div")

\* C16 (as claimed): an extract step resolves its locator on visibility alone:
\* on an element that is visible but not interactable the step succeeds with
\* its data.
C16_ExtractNeedsVisibilityOnly ==
    ExtractOfDisabled => sResult.success /\ sResult.extractedData.def

-----------------------------------------------------------------------------
(* Claims about the waitFor step                                            *)

\* C17 (as claimed): a waitFor step with a locator succeeds exactly when the
\* located element is visible within the step's timeout; a waitFor step without
\* a locator and with a duration succeeds after sleeping.
C17_WaitForVisibility ==
    (sPc = "done" /\ sStep.type = "waitFor") =>
        /\ sStep.locator => (sResult.success <=> sEnv.found)
        /\ (~sStep.locator /\ sStep.timeoutMs) => (sResult.success /\ sResult.acts = <<>>)

\* what holds of the in-page executor alone
C17_InPageWaitForVisibility ==
    sBackend = "dom" => C17_WaitForVisibility

-----------------------------------------------------------------------------
(* Claims about the errors of a step                                        *)

\* the step lacks a field its type requires
InvalidStep(step) ==
    \/ step.type = "waitFor" /\ ~step.locator /\ ~step.timeoutMs
    \/ step.type = "select" /\ ~step.value
    \/ step.type = "keyboard" /\ ~step.key
    \/ step.type \in {"click", "type", "select", "extract"} /\ ~step.locator

\* C18 (as claimed): a step whose required fields are missing for its type
\* comes back as a failure, and nothing was done to the page.
C18_InvalidStepFails ==
    (sPc = "done" /\ InvalidStep(sStep)) =>
        ~sResult.success /\ sResult.acts = <<>>

\* what holds of the in-page executor alone
C18_InPageInvalidStepFails ==
    sBackend = "dom" => C18_InvalidStepFails

\* C19 (as claimed): when resolution fails after the full poll budget, the error
\* is AmbiguousLocator exactly when a poll had candidates of which none reached
\* the confidence threshold, it is ElementNotFound / Timeout exactly when no
\* poll had a candidate, and it lists every selector of the locator.
C19_FailureTellsWhyAndWhat ==
    pPc = "thrown" =>
        /\ pError.kind = "AmbiguousLocator" <=> pBelow
        /\ pError.kind \in {"NotFound", "Timeout"} <=> ~pBelow
        /\ pError.reported = 1 + pFallbacks

\* what holds of the remote runners' getElement / resolveLocator alone
C19_RemoteFailureTellsWhyAndWhat ==
    pResolver = "getElement" => C19_FailureTellsWhyAndWhat

\* a click, type or select step, complete and aimed at the right kind of
\* control, met an element that is visible but not interactable
ActionOnDisabled ==
    /\ sPc = "done"
    /\ sStep.type \in {"click", "type", "select"} /\ sStep.locator
    /\ sStep.type = "type" => sEnv.tag = "input"
    /\ sStep.type = "select" => (sStep.value /\ sEnv.tag = "select")
    /\ sEnv.found /\ ~sEnv.interactable

\* C20 (as claimed): a click, type or select step whose locator resolves to an
\* element that is visible but not interactable fails with the NotInteractable
\* error, not with the error of an element that was not found.
C20_NotInteractableReported ==
    ActionOnDisabled => sResult = NotInteractable

\* C21 (as claimed): once a stop is signalled while step i is in flight, no step
\* after i is started.
C21_StopBetweenSteps ==
    stopRequested # -1 =>
        \A k \in DOMAIN started : started[k] <= stopRequested

-----------------------------------------------------------------------------
(* Claims about the backends taken together                                 *)

Backends == { "dom", "puppeteer", "playwright" }

\* the executed step has a case in the dispatch of backend b
Dispatched(b, step) ==
    IF b = "dom"
    THEN step.type \in {"click", "type", "select", "extract", "waitFor", "navigate"}
    ELSE step.type \in StepTypes

\* C22 (as claimed): on the same step and the same page every backend returns
\* the success flag and the extractedData the executing backend returned, and
\* every backend dispatches the step's type.
C22_BackendsAgree ==
    sPc = "done" =>
        \A b \in Backends :
            /\ Dispatched(b, sStep)
            /\ StepResult(b, sStep, sEnv).success = sResult.success
            /\ StepResult(b, sStep, sEnv).extractedData = sResult.extractedData

-----------------------------------------------------------------------------
(* Claims about the generated locator                                       *)

\* element i carries a test id, under one of the recognised attribute names,
\* that no other element of the document carries
UniqueTestId(d, i) ==
    /\ d[i].testAttr \in SeqToSet(TestIdAttrs)
    /\ d[i].testId # <<>>
    /\ \A j \in Nodes(d) \ {i} : d[j].testAttr = "none" \/ d[j].testId # d[i].testId

\* C23 (as claimed): for a displayed element with a unique test id the primary
\* selector is the attribute-equality selector on the attribute that carries
\* it, and resolving the locator returns the element.
C23_TestIdIsPrimary ==
    (rPc = "resolved" /\ UniqueTestId(rDoc, rTarget) /\ IsVisible(rDoc, rTarget)) =>
        /\ rLocator.primary = Attr("", rDoc[rTarget].testAttr, rDoc[rTarget].testId)
        /\ rFound = rTarget

\* what holds when the attribute is data-testid
C23_DataTestIdIsPrimary ==
    (rPc = "resolved" /\ rDoc[rTarget].testAttr = "data-testid") => C23_TestIdIsPrimary

\* C24: a generated locator has a non-empty primary, and its fallbacks contain
\* neither the primary nor any selector twice.
C24_PrimaryAndDistinctFallbacks ==
    rPc \in {"recorded", "resolved"} =>
        /\ rLocator.primary.path # <<>>
        /\ \A k \in DOMAIN rLocator.fallbacks :
              /\ rLocator.fallbacks[k] # rLocator.primary
              /\ \A l \in DOMAIN rLocator.fallbacks :
                    l # k => rLocator.fallbacks[l] # rLocator.fallbacks[k]

\* a locator was generated with an identity selector as primary and several
\* fallbacks, the structural one among them
C24_Witness ==
    /\ rPc = "recorded"
    /\ rDoc[rTarget].id # <<>>
    /\ Len(rLocator.fallbacks) >= 2
    /\ makeSelector(rDoc, rTarget) \in SeqToSet(rLocator.fallbacks)

\* a locator was generated for an element without attributes: the structural
\* selector is its primary
C24_BareElementWitness ==
    /\ rPc = "recorded"
    /\ rLocator.primary = makeSelector(rDoc, rTarget)
    /\ rLocator.fallbacks = <<>>

-----------------------------------------------------------------------------
(* Claims about the resolver                                                *)

\* C25 (as claimed): findByLocator returns a visible element or nothing.
C25_OnlyVisibleReturned ==
    rPc = "resolved" => (rFound = 0 \/ IsVisible(rDoc, rFound))

-----------------------------------------------------------------------------
(* The persisted flow: src/lib/storage/flowStorage.ts                        *)

StorageAdapters == {"extension", "memory"}

\* a recorded step, told apart by its place in the recording; url: it has one
RecordedStep(n, url) == [id |-> n, url |-> url]

NoRecordedStep == RecordedStep(0, FALSE)

\* the value under FLOW_STORAGE_KEY; exists = FALSE: nothing is stored
NoFlow == [exists |-> FALSE, steps |-> <<>>, startUrl |-> FALSE]

\* the flow addStep starts when getFlow gives null
NewFlow == [exists |-> TRUE, steps |-> <<>>, startUrl |-> FALSE]

StoredFlows ==
    {NoFlow, NewFlow}
        \cup { [exists |-> TRUE, steps |-> <<RecordedStep(0, u)>>, startUrl |-> u] :
                 u \in BOOLEAN }

\* getFlow: the stored flow, or null when there is none or the read threw
getFlow(stored, readOk) == IF readOk THEN stored ELSE NoFlow

\* addStep before it saves: the flow read (or a new one) with the step pushed
\* and the start url taken from the first step that has one
FlowToSave(stored, readOk, step) ==
    LET got == getFlow(stored, readOk)
        f == IF got.exists THEN got ELSE NewFlow
    IN  [exists |-> TRUE,
         steps |-> Append(f.steps, step),
         startUrl |-> f.startUrl \/ step.url]

StorageIdle ==
    /\ fAdapter = "extension" /\ fStored = NoFlow /\ fPc = "idle"
    /\ fFlow = NoFlow /\ fStep = NoRecordedStep /\ fCalls = 0
    /\ fBefore = <<>> /\ fAdded = <<>> /\ fReadFailed = FALSE
    /\ fOverlap = <<>> /\ fRead = "none"

StorageInit ==
    /\ fAdapter \in StorageAdapters
    /\ fStored \in StoredFlows
    /\ fBefore = fStored.steps
    /\ fPc = "idle" /\ fFlow = NoFlow /\ fStep = NoRecordedStep /\ fCalls = 0
    /\ fAdded = <<>> /\ fReadFailed = FALSE
    /\ fOverlap = <<>> /\ fRead = "none"

\* addStep up to its await of saveFlow.  The memory adapter hands out the
\* stored object itself, so the push is already in the store.
AddStepGet ==
    /\ fPc = "idle" /\ fCalls < MaxSteps
    /\ \E url \in BOOLEAN, readOk \in BOOLEAN :
         /\ fAdapter = "memory" => readOk
         /\ fStep' = RecordedStep(fCalls + 1, url)
         /\ fFlow' = FlowToSave(fStored, readOk, fStep')
         /\ fStored' = IF fAdapter = "memory" /\ fStored.exists THEN fFlow' ELSE fStored
         /\ fReadFailed' = (fReadFailed \/ ~readOk)
         /\ fRead' = IF readOk THEN "ok" ELSE "failed"
    /\ fCalls' = fCalls + 1
    /\ fPc' = "saving"
    /\ UNCHANGED <<fAdapter, fBefore, fAdded, fOverlap>>
    /\ UNCHANGED otherThanStorage

\* saveFlow and the return of addStep; a failed write is rethrown
AddStepSave ==
    /\ fPc = "saving"
    /\ \E saveOk \in BOOLEAN :
         /\ fAdapter = "memory" => saveOk
         /\ fStored' = IF saveOk THEN fFlow ELSE fStored
         /\ fAdded' = IF saveOk THEN Append(fAdded, fStep) ELSE fAdded
    /\ fPc' = "idle"
    /\ UNCHANGED <<fAdapter, fFlow, fStep, fCalls, fBefore, fReadFailed, fOverlap, fRead>>
    /\ UNCHANGED otherThanStorage

StorageNext == AddStepGet \/ AddStepSave

-----------------------------------------------------------------------------
(* Claims about the persisted flow                                           *)

\* C26 (as claimed): between addStep calls made one after another, the
\* persisted steps are the steps persisted before the calls followed by the
\* steps added, in call order.
C26_AddStepAppends ==
    fPc = "idle" => fStored.steps = fBefore \o fAdded

\* what does hold: the same, as long as no read of the store has failed
C26_AddStepAppendsWhenRead ==
    (fPc = "idle" /\ ~fReadFailed) => fStored.steps = fBefore \o fAdded

\* two steps were added to a flow that had one
C26_Witness ==
    fPc = "idle" /\ ~fReadFailed /\ Len(fBefore) = 1 /\ Len(fAdded) = 2

-----------------------------------------------------------------------------
(* The recorder: src/apps/extension/hooks/useRecording.ts                    *)

MaxValueLen == 2

TypedChars == {"a", "b"}

\* the page's text fields: 1 is an <input>, 2 a <textarea>
TextFields == {1, 2}

FieldTag(f) == IF f = 1 THEN "input" ELSE "textarea"

\* a mask of one character, whatever the length
MaskFixed(n) == <<"*">>

\* "*".repeat(n)
repeat(n) == [i \in 1..n |-> "*"]

\* flushTyping: value ? "*".repeat(value.length) : ""
MaskOfPending(value) == IF value # <<>> THEN repeat(Len(value)) ELSE <<>>

\* a recorded type step; typed (history): what the field held when recorded
TypeStep(f, masked, value, typed) ==
    [type |-> "type", field |-> f, text |-> masked, originalText |-> value,
     typed |-> typed]

OtherStep(type, f) ==
    [type |-> type, field |-> f, text |-> <<>>, originalText |-> <<>>, typed |-> <<>>]

\* a flushTyping that sends nothing
flushNothing(selector, value, values) == <<>>

\* what flushTyping sends: nothing without a pending selector
flushTyping(selector, value, values) ==
    IF selector = 0 THEN <<>>
    ELSE <<TypeStep(selector, MaskOfPending(value), value, values[selector])>>

\* the Enter handler of an <input>: pendingValue || elementValue
ValueToRecord(pending, elementValue) ==
    IF pending # <<>> THEN pending ELSE elementValue

\* a field nobody typed into yet
Untyped == 0 - 1

\* uCount after a handler sent the steps `sent`: one more, up to two, for
\* each type step of a field
CountAfter(count, sent) ==
    [f \in TextFields |->
        LET n == Cardinality({ i \in DOMAIN sent : sent[i].type = "type" /\ sent[i].field = f })
            was == IF count[f] = Untyped THEN 0 ELSE count[f] IN
        IF n = 0 THEN count[f] ELSE IF was + n > 2 THEN 2 ELSE was + n]

RecorderIdle ==
    /\ uActive = 1 /\ uValue = [f \in TextFields |-> <<>>]
    /\ uTypingSelector = 0 /\ uTypingValue = <<>> /\ uTimer = FALSE
    /\ uSent = <<>>
    /\ uRecording = "on" /\ uEnterPending = 0
    /\ uCount = [f \in TextFields |-> Untyped]

\* recording is on, the fields are empty, nothing is pending
RecorderInit == RecorderIdle

\* handleInput on the focused text field after a key that adds or deletes
\* a character
HandleInput ==
    /\ uRecording # "off"
    /\ \E v \in {Append(uValue[uActive], c) : c \in TypedChars}
               \cup {SubSeq(uValue[uActive], 1, Len(uValue[uActive]) - 1)} :
         /\ v # uValue[uActive]
         /\ Len(v) <= MaxValueLen
         /\ uValue' = [uValue EXCEPT ![uActive] = v]
         /\ uTypingValue' = v
    /\ uTypingSelector' = uActive
    /\ uTimer' = TRUE
    /\ uSent' = <<>>
    /\ uCount' = [uCount EXCEPT ![uActive] = 0]
    /\ UNCHANGED <<uActive, uRecording, uEnterPending>>
    /\ UNCHANGED otherThanRecorder

\* the 500 ms debounce timer fires: flushTyping, which returns at once when
\* recordingRef.current is false
TypingTimer ==
    /\ uTimer
    /\ uTimer' = FALSE
    /\ IF uRecording = "off"
       THEN /\ uSent' = <<>>
            /\ UNCHANGED <<uTypingSelector, uTypingValue>>
       ELSE /\ uSent' = flushTyping(uTypingSelector, uTypingValue, uValue)
            /\ uTypingSelector' = 0 /\ uTypingValue' = <<>>
    /\ uCount' = CountAfter(uCount, uSent')
    /\ UNCHANGED <<uActive, uValue, uRecording, uEnterPending>>
    /\ UNCHANGED otherThanRecorder

\* handleFocusOut: the focus leaves the text field for the other one
HandleFocusOut ==
    /\ uRecording # "off"
    /\ uSent' = flushTyping(uTypingSelector, uTypingValue, uValue)
    /\ uTimer' = (uTimer /\ uTypingSelector = 0)
    /\ uTypingSelector' = 0 /\ uTypingValue' = <<>>
    /\ uActive' = 3 - uActive
    /\ uCount' = CountAfter(uCount, uSent')
    /\ UNCHANGED <<uValue, uRecording, uEnterPending>>
    /\ UNCHANGED otherThanRecorder

\* handleClick on an element that is no field: flushTyping, then the click step
HandleClick ==
    /\ uRecording # "off"
    /\ uSent' = flushTyping(uTypingSelector, uTypingValue, uValue)
                      \o <<OtherStep("click", 0)>>
    /\ uTimer' = (uTimer /\ uTypingSelector = 0)
    /\ uTypingSelector' = 0 /\ uTypingValue' = <<>>
    /\ uCount' = CountAfter(uCount, uSent')
    /\ UNCHANGED <<uActive, uValue, uRecording, uEnterPending>>
    /\ UNCHANGED otherThanRecorder

\* handleKeydownGlobal, Enter in the <input>
EnterInInput ==
    /\ uRecording # "off"
    /\ FieldTag(uActive) = "input"
    /\ LET valueToRecord == ValueToRecord(uTypingValue, uValue[uActive])
           typeStep == TypeStep(uActive, repeat(Len(valueToRecord)), valueToRecord,
                                uValue[uActive])
       IN  uSent' = (IF valueToRecord # <<>> THEN <<typeStep>> ELSE <<>>)
                          \o <<OtherStep("keyboard", uActive)>>
    /\ uTimer' = FALSE /\ uTypingSelector' = 0 /\ uTypingValue' = <<>>
    /\ uCount' = CountAfter(uCount, uSent')
    /\ UNCHANGED <<uActive, uValue, uRecording, uEnterPending>>
    /\ UNCHANGED otherThanRecorder

\* handleKeydownGlobal, Enter in the <textarea>: the type step at once, the
\* look at the result 50 ms later (one such look pending at a time)
EnterInTextarea ==
    /\ uRecording # "off"
    /\ FieldTag(uActive) = "textarea"
    /\ uEnterPending = 0
    /\ LET current == uValue[uActive]
           typeStep == TypeStep(uActive, repeat(Len(current)), current, current)
       IN  /\ uSent' = (IF current # <<>> THEN <<typeStep>> ELSE <<>>)
           /\ uTimer' = (uTimer /\ current = <<>>)
    /\ uTypingSelector' = 0 /\ uTypingValue' = <<>>
    /\ uEnterPending' = uActive
    /\ uCount' = CountAfter(uCount, uSent')
    /\ UNCHANGED <<uActive, uValue, uRecording>>
    /\ UNCHANGED otherThanRecorder

\* the setTimeout(..., 50) callback of the textarea's Enter: a new line (no
\* keyboard step) or a submit; it does not read recordingRef
EnterCallback ==
    /\ uEnterPending # 0
    /\ \E newline \in BOOLEAN :
         uSent' = IF newline THEN <<>> ELSE <<OtherStep("keyboard", uEnterPending)>>
    /\ uEnterPending' = 0
    /\ UNCHANGED <<uActive, uValue, uTypingSelector, uTypingValue, uTimer, uRecording, uCount>>
    /\ UNCHANGED otherThanRecorder

RecorderNext ==
    \/ HandleInput
    \/ TypingTimer
    \/ HandleFocusOut
    \/ HandleClick
    \/ EnterInInput
    \/ EnterInTextarea
    \/ EnterCallback

\* stopRecording up to its await: flushTyping()
StopRecording ==
    /\ uRecording = "on"
    /\ uSent' = flushTyping(uTypingSelector, uTypingValue, uValue)
    /\ uTimer' = (uTimer /\ uTypingSelector = 0)
    /\ uTypingSelector' = 0 /\ uTypingValue' = <<>>
    /\ uRecording' = "stopping"
    /\ uCount' = CountAfter(uCount, uSent')
    /\ UNCHANGED <<uActive, uValue, uEnterPending>>
    /\ UNCHANGED otherThanRecorder

\* STOP_RECORD was answered: setRecording(false), recordingRef follows and
\* the listeners are removed; no timer is cleared
RecordingOff ==
    /\ uRecording = "stopping"
    /\ uRecording' = "off"
    /\ uSent' = <<>>
    /\ UNCHANGED <<uActive, uValue, uTypingSelector, uTypingValue, uTimer, uEnterPending, uCount>>
    /\ UNCHANGED otherThanRecorder

\* startRecording: setRecording(true)
StartRecording ==
    /\ uRecording = "off"
    /\ uRecording' = "on"
    /\ uSent' = <<>>
    /\ UNCHANGED <<uActive, uValue, uTypingSelector, uTypingValue, uTimer, uEnterPending, uCount>>
    /\ UNCHANGED otherThanRecorder

SessionNext ==
    \/ HandleInput
    \/ TypingTimer
    \/ HandleFocusOut
    \/ HandleClick
    \/ EnterInInput
    \/ EnterInTextarea
    \/ EnterCallback
    \/ StopRecording
    \/ RecordingOff
    \/ StartRecording

-----------------------------------------------------------------------------
(* Claims about the recorder                                                 *)

RecordedTypeSteps == { uSent[i] : i \in { j \in DOMAIN uSent : uSent[j].type = "type" } }

\* C27: every recorded type step has as text one '*' per character of the
\* typed value and as originalText the typed value itself.
C27_MaskedAndOriginal ==
    \A s \in RecordedTypeSteps :
        /\ s.text = [i \in 1..Len(s.typed) |-> "*"]
        /\ s.originalText = s.typed

\* a value of two different characters was recorded
C27_Witness ==
    \E s \in RecordedTypeSteps : s.typed = <<"a", "b">>

-----------------------------------------------------------------------------
(* The remote resolver: pickBestCandidate and getElement of the Puppeteer    *)
(* and Playwright runners, evaluated on the same documents.                  *)

\* isVisible inside page.$$eval: the computed style (the elements here all
\* have client rects)
RemoteIsVisible(d, i) == d[i].display # "none"

RemoteIsInteractable(d, i) ==
    /\ RemoteIsVisible(d, i)
    /\ ~(d[i].tag \in (FormFieldTags \cup {"button"}) /\ d[i].disabled)

\* calculateScore(element, candidateMetadata)
calculateScore(d, el, metadata) ==
    LET labelText == IF IsFormField(d, el) THEN getAssociatedLabelText(d, el) ELSE <<>>
        context == getFormContextForElement(d, el)
        elementRole == IF d[el].role # "" THEN d[el].role ELSE getImplicitRoleForElement(d, el) IN
      (IF metadata.testId # <<>> /\ d[el].testAttr # "none" /\ d[el].testId = metadata.testId
       THEN 120 ELSE 0)
    + (IF metadata.labelText = <<>> THEN 0
       ELSE IF labelText = metadata.labelText THEN 100
       ELSE IF labelText # <<>> /\ Includes(labelText, metadata.labelText) THEN 50
       ELSE 0)
    + (IF /\ metadata.formContext.present /\ metadata.formContext.fieldIndex # 0
          /\ context.present /\ context.fieldIndex = metadata.formContext.fieldIndex
       THEN 90 ELSE 0)
    + (IF metadata.placeholder # <<>> /\ d[el].placeholder = metadata.placeholder THEN 70 ELSE 0)
    + (IF metadata.ariaLabel # <<>> /\ d[el].aria = metadata.ariaLabel THEN 60 ELSE 0)
    + (IF metadata.tagName # "" /\ d[el].tag = metadata.tagName THEN 20 ELSE 0)
    + (IF metadata.role # "" /\ elementRole = metadata.role THEN 10 ELSE 0)

\* the elements left after the visible-and-interactable filter and the
\* deduplication by DOM path: every element some selector matches, once
PooledCandidates(d, sels) ==
    { el \in Nodes(d) : /\ RemoteIsInteractable(d, el)
                        /\ \E k \in DOMAIN sels : Matches(d, el, sels[k]) }

\* the selectorOrder the deduplication keeps for an element: the first
\* selector that matches it (1-based here)
SelectorOrder(d, sels, el) ==
    CHOOSE k \in DOMAIN sels :
        /\ Matches(d, el, sels[k])
        /\ \A m \in 1..(k - 1) : ~Matches(d, el, sels[m])

\* the comparison of resolved.sort: score, then selectorOrder, then elementIndex
SortsBefore(d, sels, metadata, a, b) ==
    LET sa == calculateScore(d, a, metadata)
        sb == calculateScore(d, b, metadata)
        oa == SelectorOrder(d, sels, a)
        ob == SelectorOrder(d, sels, b) IN
    \/ sa > sb
    \/ sa = sb /\ oa < ob
    \/ sa = sb /\ oa = ob
          /\ IndexOf(QuerySelectorAll(d, sels[oa]), a) <= IndexOf(QuerySelectorAll(d, sels[ob]), b)

NoCandidate == [ candidate |-> 0, score |-> 0, totalCandidates |-> 0 ]

\* pickBestCandidate(page, selectors, metadata); NoCandidate for null
pickBestCandidate(d, sels, metadata) ==
    LET pool == PooledCandidates(d, sels) IN
    IF pool = {} THEN NoCandidate
    ELSE LET best == CHOOSE a \in pool : \A b \in pool : SortsBefore(d, sels, metadata, a, b) IN
         [ candidate |-> best, score |-> calculateScore(d, best, metadata),
           totalCandidates |-> Cardinality(pool) ]

\* what getElement returns on an unchanging page: the element of the first
\* poll that accepts one, 0 when every poll ends without (it then throws)
getElement(d, locator) ==
    LET resolved == pickBestCandidate(d, SelectorsOf(locator), locator.metadata) IN
    IF /\ resolved.candidate # 0
       /\ (resolved.totalCandidates = 1 \/ resolved.score >= MIN_CONFIDENCE_SCORE)
    THEN resolved.candidate
    ELSE 0

\* getElement(page, step, timeout) of a remote runner on the same page
RemoteResolve ==
    /\ rPc = "recorded"
    /\ rFound' = getElement(rDoc, rLocator)
    /\ rPc' = "resolved"
    /\ UNCHANGED << rDoc, rTarget, rLocator, rPicked >>
    /\ UNCHANGED otherThanResolve

RemoteResolveNext == Generate \/ RemoteResolve

-----------------------------------------------------------------------------
(* Claims about the order of the selectors and the score                     *)

\* the first selector of the locator, in the order primary then fallbacks,
\* that matches an element the resolver may return (0: none does)
FirstMatching(d, sels, usable(_)) ==
    IF \E k \in DOMAIN sels : \E el \in Nodes(d) : usable(el) /\ Matches(d, el, sels[k])
    THEN CHOOSE k \in DOMAIN sels :
            /\ \E el \in Nodes(d) : usable(el) /\ Matches(d, el, sels[k])
            /\ \A m \in 1..(k - 1) : ~\E el \in Nodes(d) : usable(el) /\ Matches(d, el, sels[m])
    ELSE 0

\* the resolver returned the only usable match of the first selector that
\* has a usable match, if that selector has only one
ReturnsUniqueMatch(d, sels, usable(_), returned) ==
    LET k == FirstMatching(d, sels, usable)
        matches == { el \in Nodes(d) : usable(el) /\ Matches(d, el, sels[k]) } IN
    (k # 0 /\ Cardinality(matches) = 1) => returned \in matches

\* C28 (as claimed): the resolver returns the element of the first selector,
\* in the order primary then fallbacks, that matches exactly one visible and
\* interactable element, whatever the later selectors match.
C28_FirstUniqueSelectorWins ==
    rPc = "resolved" =>
        ReturnsUniqueMatch(rDoc, SelectorsOf(rLocator),
                           LAMBDA el : RemoteIsInteractable(rDoc, el), rFound)

\* what does hold: the in-page findByLocator returns the only visible match
\* of the first selector that has a visible match
C28_InPageFirstUniqueSelectorWins ==
    rPc = "resolved" =>
        ReturnsUniqueMatch(rDoc, SelectorsOf(rLocator),
                           LAMBDA el : IsVisible(rDoc, el), rFound)

\* the score the weights give a candidate: 120 test id, 100 label text (50 if
\* it only contains the recorded one), 90 form field index, 70 placeholder,
\* 60 aria-label, 20 tag name, 10 role
WeightedScore(d, el, metadata) ==
    LET label == IF IsFormField(d, el) THEN getAssociatedLabelText(d, el) ELSE <<>>
        role == IF d[el].role # "" THEN d[el].role ELSE getImplicitRoleForElement(d, el)
        Weight(matched, w) == IF matched THEN w ELSE 0 IN
      Weight(metadata.testId # <<>> /\ getTestId(d, el) = metadata.testId, 120)
    + Weight(metadata.labelText # <<>> /\ label = metadata.labelText, 100)
    + Weight(/\ metadata.labelText # <<>> /\ label # metadata.labelText
             /\ label # <<>> /\ Includes(label, metadata.labelText), 50)
    + Weight(/\ metadata.formContext.present
             /\ getFormContextForElement(d, el).present
             /\ getFormContextForElement(d, el).fieldIndex = metadata.formContext.fieldIndex, 90)
    + Weight(metadata.placeholder # <<>> /\ d[el].placeholder = metadata.placeholder, 70)
    + Weight(metadata.ariaLabel # <<>> /\ d[el].aria = metadata.ariaLabel, 60)
    + Weight(metadata.tagName # "" /\ d[el].tag = metadata.tagName, 20)
    + Weight(metadata.role # "" /\ role = metadata.role, 10)

\* C29 (as claimed): the score a resolver gives a candidate is the sum of the
\* weights of the recorded properties the candidate matches, for the in-page
\* verifier as for the remote one.
C29_ScoreIsWeightedSum ==
    rPc = "resolved" =>
        \A el \in Nodes(rDoc) :
            /\ MetadataScore(rDoc, el, rLocator.metadata)
                  = WeightedScore(rDoc, el, rLocator.metadata)
            /\ calculateScore(rDoc, el, rLocator.metadata)
                  = WeightedScore(rDoc, el, rLocator.metadata)

\* what does hold: the remote calculateScore is that sum
C29_RemoteScoreIsWeightedSum ==
    rPc = "resolved" =>
        \A el \in Nodes(rDoc) :
            calculateScore(rDoc, el, rLocator.metadata)
                = WeightedScore(rDoc, el, rLocator.metadata)

-----------------------------------------------------------------------------
(* Resolving a locator whose selectors have gone stale: the page was         *)
(* redeployed since the recording and no recorded selector matches any more. *)

\* #gone, an id no element of the documents has
StaleSelector == Chain(<< Compound("", <<"g", "o", "n", "e">>, "", <<>>, <<>>, 0) >>)

\* the recorder's generateRobustLocator(element), its selectors gone stale
GenerateStale ==
    /\ rPc = "loaded"
    /\ \E element \in Nodes(rDoc) :
        /\ rTarget' = element
        /\ rLocator' = [ generateRobustLocator(rDoc, element) EXCEPT
                            !.primary = StaleSelector, !.fallbacks = <<>> ]
    /\ rPc' = "recorded"
    /\ UNCHANGED << rDoc, rFound, rPicked >>
    /\ UNCHANGED otherThanResolve

StaleResolveNext == GenerateStale \/ Resolve

-----------------------------------------------------------------------------
(* Claims about the metadata searches                                        *)

\* what each metadata search finds for the recorded metadata, visible or not,
\* in the order findByLocator goes through the searches
StrategyHits(d, metadata) ==
    << IF metadata.labelText = <<>> THEN <<>>
       ELSE findByLabelTextExtended(d, metadata.labelText),
       IF metadata.testId = <<>> \/ findByTestId(d, metadata.testId) = 0 THEN <<>>
       ELSE << findByTestId(d, metadata.testId) >>,
       IF metadata.text = <<>> THEN <<>>
       ELSE findByText(d, metadata.text, metadata.role),
       IF metadata.placeholder = <<>> THEN <<>>
       ELSE findByPlaceholder(d, metadata.placeholder),
       IF metadata.ariaLabel = <<>> THEN <<>>
       ELSE findByLabelText(d, metadata.ariaLabel) >>

VisibleHits(d, hits) == { el \in SeqToSet(hits) : IsVisible(d, el) }

\* the earliest search that has a visible hit, 0 when none has
EarliestStrategy(d, metadata) ==
    LET hits == StrategyHits(d, metadata)
        Has(k) == VisibleHits(d, hits[k]) # {} IN
    IF \E k \in DOMAIN hits : Has(k)
    THEN CHOOSE k \in DOMAIN hits : Has(k) /\ \A m \in 1..(k - 1) : ~Has(m)
    ELSE 0

\* C30 (as claimed): when no selector yields an element, findByLocator
\* returns a visible hit of the earliest metadata search that has one, and
\* nothing only when no search has a visible hit.
C30_EarliestStrategyWins ==
    (rPc = "resolved" /\ DecidingSelector(rDoc, rLocator) = 0) =>
        LET k == EarliestStrategy(rDoc, rLocator.metadata) IN
        IF k = 0 THEN rFound = 0
        ELSE rFound \in VisibleHits(rDoc, StrategyHits(rDoc, rLocator.metadata)[k])

\* the same for the searches that found something visible at all: a later
\* search's hit is not returned while an earlier search has a visible hit
C30_NoLaterStrategyFirst ==
    (rPc = "resolved" /\ DecidingSelector(rDoc, rLocator) = 0 /\ rFound # 0
        /\ IsVisible(rDoc, rFound)) =>
        rFound \in VisibleHits(rDoc, StrategyHits(rDoc, rLocator.metadata)
                                         [EarliestStrategy(rDoc, rLocator.metadata)])

-----------------------------------------------------------------------------
(* The race of the selectors: resolveLocator of the earlier                  *)
(* PlaywrightFlowRunner, on a clock.                                         *)

MaxSelectors == 3

RaceTick == 50

RaceTimeouts == {50, 100}

\* when the first element of a selector gets visible; 200 is after every
\* timeout
AppearTimes == {0, 50, 100, 200}

\* Promise.all over the promises: "fulfilled" | "rejected" | "pending"
PromiseAll(promises) ==
    IF \E k \in DOMAIN promises : promises[k] = "rejected" THEN "rejected"
    ELSE IF \A k \in DOMAIN promises : promises[k] = "fulfilled" THEN "fulfilled"
    ELSE "pending"

\* Promise.any over the promises
PromiseAny(promises) ==
    IF \E k \in DOMAIN promises : promises[k] = "fulfilled" THEN "fulfilled"
    ELSE IF \A k \in DOMAIN promises : promises[k] = "rejected" THEN "rejected"
    ELSE "pending"

\* where `await Promise.any(promises)` leaves resolveLocator
AfterSettling(promises) ==
    CASE PromiseAny(promises) = "fulfilled" -> "resolved"
      [] PromiseAny(promises) = "rejected" -> "thrown"
      [] OTHER -> "racing"

RaceIdle ==
    /\ qTimeout = 0 /\ qAppear = <<>> /\ qNow = 0 /\ qPromise = <<>>
    /\ qWinner = 0 /\ qPc = "idle"

\* resolveLocator was called with a locator of two selectors or more, and
\* has created one waitFor promise for each
RaceInit ==
    /\ qTimeout \in RaceTimeouts
    /\ qAppear \in UNION { [1..n -> AppearTimes] : n \in 2..MaxSelectors }
    /\ qNow = 0
    /\ qPromise = [k \in DOMAIN qAppear |-> "pending"]
    /\ qWinner = 0 /\ qPc = "racing"

\* loc.waitFor({ state: "visible", timeout }) of selector k finds its element
\* visible before its timeout
WaitForVisible ==
    /\ \E k \in DOMAIN qPromise :
        /\ qPromise[k] = "pending"
        /\ qAppear[k] <= qNow /\ qNow < qTimeout
        /\ qPromise' = [qPromise EXCEPT ![k] = "fulfilled"]
        /\ qPc' = IF qPc = "racing" THEN AfterSettling(qPromise') ELSE qPc
        /\ qWinner' = IF qPc = "racing" /\ qPc' = "resolved" THEN k ELSE qWinner
    /\ UNCHANGED <<qTimeout, qAppear, qNow>>
    /\ UNCHANGED otherThanRace

\* the waitFor of selector k runs out of time
WaitForTimeout ==
    /\ \E k \in DOMAIN qPromise :
        /\ qPromise[k] = "pending"
        /\ qNow >= qTimeout
        /\ qPromise' = [qPromise EXCEPT ![k] = "rejected"]
        /\ qPc' = IF qPc = "racing" THEN AfterSettling(qPromise') ELSE qPc
    /\ UNCHANGED <<qTimeout, qAppear, qNow, qWinner>>
    /\ UNCHANGED otherThanRace

\* time passes; a waitFor whose element is visible has noticed it before
RaceClock ==
    /\ qPc # "idle" /\ qNow < qTimeout
    /\ \A k \in DOMAIN qPromise : qPromise[k] = "pending" => qAppear[k] > qNow
    /\ qNow' = qNow + RaceTick
    /\ UNCHANGED <<qTimeout, qAppear, qPromise, qWinner, qPc>>
    /\ UNCHANGED otherThanRace

RaceNext == WaitForVisible \/ WaitForTimeout \/ RaceClock

-----------------------------------------------------------------------------
(* Claims about the race                                                     *)

InTime(k) == qAppear[k] < qTimeout

\* C31: the race returns the locator of a selector that became visible within
\* the timeout whenever one did, and throws only when every selector's wait
\* has failed.
C31_RaceOfSelectors ==
    /\ qPc = "resolved" => (qWinner \in DOMAIN qAppear /\ InTime(qWinner))
    /\ qPc = "thrown" =>
          \A k \in DOMAIN qPromise : qPromise[k] = "rejected" /\ ~InTime(k)
    /\ (qPc = "racing" /\ qNow >= qTimeout) => \A k \in DOMAIN qAppear : ~InTime(k)

\* a fallback won the race although the primary never became visible
C31_Witness ==
    qPc = "resolved" /\ qWinner = 2 /\ ~InTime(1) /\ qPromise[1] = "rejected"

-----------------------------------------------------------------------------
(* Deeply nested pages: html > body > div > ... > div > button, where any    *)
(* of the elements below body may carry an id.                               *)

MaxNesting == 7

\* the id of the element at nesting level k
LevelId(k) == << "n", << "1", "2", "3", "4", "5", "6", "7", "8", "9" >>[k] >>

NestedDocument(withId) ==
    [ k \in 1..(2 + Len(withId)) |->
        IF k = 1 THEN Elem("html", 0)
        ELSE IF k = 2 THEN Elem("body", 1)
        ELSE [ Elem(IF k = 2 + Len(withId) THEN "button" ELSE "div", k - 1)
                 EXCEPT !.id = IF withId[k - 2] THEN LevelId(k - 2) ELSE <<>> ] ]

NestedDocuments ==
    { NestedDocument(withId) : withId \in UNION { [1..n -> BOOLEAN] : n \in 1..MaxNesting } }

NestedInit ==
    /\ rDoc \in NestedDocuments
    /\ rTarget = 0 /\ rLocator = NoLocator /\ rFound = 0 /\ rPc = "loaded"
    /\ rPicked = NoPick

-----------------------------------------------------------------------------
(* Claims about the structural selector                                      *)

\* the element and its ancestors, nearest first
Lineage(d, i) == << i >> \o Ancestors(d, i)

\* how many steps up from i the first element with an id is (0: i itself),
\* -1 when neither i nor an ancestor has one
StepsToId(d, i) ==
    LET line == Lineage(d, i)
        withId == { k \in DOMAIN line : d[line[k]].id # <<>> } IN
    IF withId = {} THEN -1
    ELSE (CHOOSE k \in withId : \A m \in withId : k <= m) - 1

\* the structural selector of the locator that was generated: the selector
\* generateRobustLocator pushes last
StructuralPath == SelectorsOf(rLocator)[Len(SelectorsOf(rLocator))].path

\* C32 (as claimed): the structural selector has 1 to 5 segments and its
\* leftmost segment is the first element, going up from the target, that has
\* an id.
C32_StopsAtFirstId ==
    rPc = "recorded" =>
        /\ Len(StructuralPath) \in 1..5
        /\ StepsToId(rDoc, rTarget) >= 0 =>
              StructuralPath[1].id = rDoc[Lineage(rDoc, rTarget)[StepsToId(rDoc, rTarget) + 1]].id

\* C32 (amended): the structural selector has 1 to 5 segments; when the
\* target or one of its first four ancestors has an id, the selector stops at
\* the nearest such element, which is its leftmost segment; otherwise no
\* segment has an id and the selector has 5 segments or reaches the root.
C32_StopsAtFirstIdWithinDepth ==
    rPc = "recorded" =>
        LET steps == StepsToId(rDoc, rTarget)
            line == Lineage(rDoc, rTarget) IN
        /\ Len(StructuralPath) \in 1..MaxSelectorDepth
        /\ (steps >= 0 /\ steps < MaxSelectorDepth) =>
              /\ Len(StructuralPath) = steps + 1
              /\ StructuralPath[1].id = rDoc[line[steps + 1]].id
              /\ StructuralPath[1].tag = rDoc[line[steps + 1]].tag
        /\ ~(steps >= 0 /\ steps < MaxSelectorDepth) =>
              /\ \A k \in DOMAIN StructuralPath : StructuralPath[k].id = <<>>
              /\ Len(StructuralPath) = IF Len(line) < MaxSelectorDepth THEN Len(line)
                                       ELSE MaxSelectorDepth

\* a selector was built for a button whose second ancestor is the nearest
\* element with an id, three more levels above it
C32_Witness ==
    /\ rPc = "recorded"
    /\ StepsToId(rDoc, rTarget) = 2
    /\ Len(Lineage(rDoc, rTarget)) >= 6
    /\ Len(StructuralPath) = 3

-----------------------------------------------------------------------------
(* addStep calls that overlap: the recorder's messages are handled as they   *)
(* arrive, and a call does not wait for the one before it.                   *)

MaxOverlap == 2

\* an addStep call: pc "called" | "saving" | "done"; aliased: its flow is the
\* very object the memory adapter holds
OverlapCall(at, step, f, aliased) ==
    [pc |-> at, step |-> step, flow |-> f, aliased |-> aliased]

OverlapInit ==
    /\ fAdapter \in StorageAdapters
    /\ fStored \in StoredFlows
    /\ fBefore = fStored.steps
    /\ fPc = "idle" /\ fFlow = NoFlow /\ fStep = NoRecordedStep /\ fCalls = 0
    /\ fAdded = <<>> /\ fReadFailed = FALSE /\ fRead = "none"
    /\ fOverlap \in { [c \in 1..n |-> OverlapCall("called", RecordedStep(c, url[c]), NoFlow, FALSE)] :
                        n \in {MaxOverlap}, url \in [1..MaxOverlap -> BOOLEAN] }

\* addStep of call c up to its await of saveFlow
OverlapGet ==
    /\ \E c \in DOMAIN fOverlap, readOk \in BOOLEAN :
        LET call == fOverlap[c]
            aliased == fAdapter = "memory" /\ fStored.exists
            toSave == FlowToSave(fStored, readOk, call.step) IN
        /\ call.pc = "called"
        /\ fAdapter = "memory" => readOk
        /\ fStored' = IF aliased THEN toSave ELSE fStored
        /\ fOverlap' = [fOverlap EXCEPT ![c] = OverlapCall("saving", call.step, toSave, aliased)]
        /\ fReadFailed' = (fReadFailed \/ ~readOk)
    /\ UNCHANGED <<fAdapter, fPc, fFlow, fStep, fCalls, fBefore, fAdded, fRead>>
    /\ UNCHANGED otherThanStorage

\* saveFlow and the return of call c.  An aliased flow is the stored object
\* with everything pushed on it since; storing another object leaves the
\* calls that hold the old one with what it held.
OverlapSave ==
    /\ \E c \in DOMAIN fOverlap, saveOk \in BOOLEAN :
        LET call == fOverlap[c]
            Detached(o) == IF o.aliased /\ ~call.aliased
                           THEN OverlapCall(o.pc, o.step, fStored, FALSE) ELSE o IN
        /\ call.pc = "saving"
        /\ fAdapter = "memory" => saveOk
        /\ fStored' = IF saveOk /\ ~call.aliased THEN call.flow ELSE fStored
        /\ fOverlap' = [d \in DOMAIN fOverlap |->
                          IF d = c THEN OverlapCall("done", call.step, call.flow, call.aliased)
                          ELSE IF saveOk THEN Detached(fOverlap[d]) ELSE fOverlap[d]]
        /\ fAdded' = IF saveOk THEN Append(fAdded, call.step) ELSE fAdded
    /\ UNCHANGED <<fAdapter, fPc, fFlow, fStep, fCalls, fBefore, fReadFailed, fRead>>
    /\ UNCHANGED otherThanStorage

OverlapNext == OverlapGet \/ OverlapSave

-----------------------------------------------------------------------------
(* Claims about overlapping calls                                            *)

AllOverlapDone == fOverlap # <<>> /\ \A c \in DOMAIN fOverlap : fOverlap[c].pc = "done"

\* C33 (as claimed): once all overlapping addStep calls have completed, the
\* step of every call that resolved is in the persisted flow (no read of the
\* store having failed).
C33_NoStepLost ==
    (AllOverlapDone /\ ~fReadFailed) =>
        \A i \in DOMAIN fAdded : fAdded[i] \in SeqToSet(fStored.steps)

\* what does hold: the step of the call that saved last is persisted
C33_LastSaveKept ==
    (AllOverlapDone /\ fAdded # <<>>) =>
        fAdded[Len(fAdded)] \in SeqToSet(fStored.steps)

-----------------------------------------------------------------------------
(* The remote resolver on a page that changes between the scoring            *)
(* evaluation ($$eval per selector, inside pickBestCandidate) and the later  *)
(* lookup of the element by selector and index.                              *)

\* the document after a script of the page inserted a copy of the childless
\* element c right before it: c.parentNode.insertBefore(c.cloneNode(), c)
InsertCloneBefore(d, c) ==
    [ k \in 1..(Len(d) + 1) |->
        IF k <= c THEN d[k]
        ELSE [ d[k - 1] EXCEPT !.parent = IF @ >= c THEN @ + 1 ELSE @ ] ]

\* the document after a script of the page removed the childless element c
RemoveElement(d, c) ==
    [ k \in 1..(Len(d) - 1) |->
        IF k < c THEN d[k]
        ELSE [ d[k + 1] EXCEPT !.parent = IF @ > c THEN @ - 1 ELSE @ ] ]

IsChildless(d, c) == ~\E k \in Nodes(d) : d[k].parent = c

\* where the element el of the old document is in the new one (0: removed)
AfterInsert(el, c) == IF el >= c THEN el + 1 ELSE el
AfterRemove(el, c) == IF el = c THEN 0 ELSE IF el > c THEN el - 1 ELSE el

\* what pickBestCandidate keeps of the candidate el that selector k found:
\* the selector and the index among its matches (0-based in the code, 1-based
\* here), no handle
PickAt(d, sels, el, k) ==
    [ element |-> el, selector |-> k,
      elementIndex |-> IndexOf(QuerySelectorAll(d, sels[k]), el), changed |-> FALSE ]

\* the acceptance test of getElement on what pickBestCandidate resolved
PickOf(d, sels, resolved) ==
    IF /\ resolved.candidate # 0
       /\ (resolved.totalCandidates = 1 \/ resolved.score >= MIN_CONFIDENCE_SCORE)
    THEN PickAt(d, sels, resolved.candidate, SelectorOrder(d, sels, resolved.candidate))
    ELSE NoPick

\* the candidate one poll accepts; NoPick when the poll accepts none
AcceptedPick(d, locator) ==
    PickOf(d, SelectorsOf(locator),
           pickBestCandidate(d, SelectorsOf(locator), locator.metadata))

\* handles = await page.$$(selector); handles[elementIndex] (0: undefined)
HandleAt(d, sel, elementIndex) ==
    LET handles == QuerySelectorAll(d, sel) IN
    IF elementIndex \in 1..Len(handles) THEN handles[elementIndex] ELSE 0

\* the pages the changes are tried on: the toolbars
ChangingInit ==
    /\ rDoc \in ButtonDocuments
    /\ rTarget = 0 /\ rLocator = NoLocator /\ rFound = 0 /\ rPc = "loaded"
    /\ rPicked = NoPick

\* the scoring evaluation of one poll that accepts a candidate
RemoteScore ==
    /\ rPc = "recorded"
    /\ \E pick \in { AcceptedPick(rDoc, rLocator) } :
         /\ pick # NoPick
         /\ rPicked' = pick
    /\ rPc' = "scored"
    /\ UNCHANGED << rDoc, rTarget, rLocator, rFound >>
    /\ UNCHANGED otherThanResolve

\* the page changes while getElement awaits between the scoring and the lookup
PageChange ==
    /\ rPc = "scored"
    /\ ~rPicked.changed
    /\ \E c \in Nodes(rDoc) :
        /\ IsChildless(rDoc, c)
        /\ \/ /\ rDoc' = InsertCloneBefore(rDoc, c)
              /\ rPicked' = [ rPicked EXCEPT !.element = AfterInsert(@, c), !.changed = TRUE ]
              /\ rTarget' = AfterInsert(rTarget, c)
           \/ /\ rDoc' = RemoveElement(rDoc, c)
              /\ rPicked' = [ rPicked EXCEPT !.element = AfterRemove(@, c), !.changed = TRUE ]
              /\ rTarget' = AfterRemove(rTarget, c)
    /\ UNCHANGED << rLocator, rFound, rPc >>
    /\ UNCHANGED otherThanResolve

\* the lookup by selector and index that ends the poll
RemoteLookup ==
    /\ rPc = "scored"
    /\ rFound' = HandleAt(rDoc, SelectorsOf(rLocator)[rPicked.selector], rPicked.elementIndex)
    /\ rPc' = "resolved"
    /\ UNCHANGED << rDoc, rTarget, rLocator, rPicked >>
    /\ UNCHANGED otherThanResolve

ChangingResolveNext == Generate \/ RemoteScore \/ PageChange \/ RemoteLookup

\* C34 (as claimed): the element handle the remote resolver returns is the
\* element that was scored and selected in that poll, also when the elements
\* matching the selector changed between the scoring and the lookup.
C34_HandleIsScoredElement ==
    (rPc = "resolved" /\ rFound # 0) => rFound = rPicked.element

\* what does hold: on a page that did not change in between, the handle is
\* the scored element
C34_UnchangedHandleIsScoredElement ==
    (rPc = "resolved" /\ ~rPicked.changed) => (rFound # 0 /\ rFound = rPicked.element)

-----------------------------------------------------------------------------
(* updateFlow(updates), with addStep, one call after another                 *)

\* a Partial<Flow> that does not name the steps: it sets the start url, or
\* only fields the model leaves out (the title)
FlowUpdates == { [setStartUrl |-> s, startUrl |-> u] : s, u \in BOOLEAN }

\* updatedFlow = { ...flow, ...updates } over the flow read, or a new one
UpdatedFlow(stored, readOk, updates) ==
    LET got == getFlow(stored, readOk)
        f == IF got.exists THEN got ELSE NewFlow
    IN  [exists |-> TRUE,
         steps |-> f.steps,
         startUrl |-> IF updates.setStartUrl THEN updates.startUrl ELSE f.startUrl]

\* updateFlow up to its await of saveFlow; the spread makes a new object, so
\* nothing is written before the save with either adapter
UpdateFlowGet ==
    /\ fPc = "idle" /\ fCalls < MaxSteps
    /\ \E updates \in FlowUpdates, readOk \in BOOLEAN :
         /\ fAdapter = "memory" => readOk
         /\ fFlow' = UpdatedFlow(fStored, readOk, updates)
         /\ fReadFailed' = (fReadFailed \/ ~readOk)
         /\ fRead' = IF readOk THEN "ok" ELSE "failed"
    /\ fCalls' = fCalls + 1
    /\ fPc' = "updating"
    /\ UNCHANGED <<fAdapter, fStored, fStep, fBefore, fAdded, fOverlap>>
    /\ UNCHANGED otherThanStorage

\* saveFlow(updatedFlow) and the return of updateFlow
UpdateFlowSave ==
    /\ fPc = "updating"
    /\ \E saveOk \in BOOLEAN :
         /\ fAdapter = "memory" => saveOk
         /\ fStored' = IF saveOk THEN fFlow ELSE fStored
    /\ fPc' = "idle"
    /\ UNCHANGED <<fAdapter, fFlow, fStep, fCalls, fBefore, fAdded, fReadFailed, fOverlap, fRead>>
    /\ UNCHANGED otherThanStorage

UpdateNext == AddStepGet \/ AddStepSave \/ UpdateFlowGet \/ UpdateFlowSave

IsPrefix(p, q) == Len(p) <= Len(q) /\ SubSeq(q, 1, Len(p)) = p

\* C35 (as claimed): the save of an addStep or updateFlow call whose read of
\* the store failed does not destroy persisted steps: the steps persisted
\* before the save are still there, in front, after it.
C35_FailedReadKeepsSteps ==
    [][ (fPc \in {"saving", "updating"} /\ fRead = "failed")
            => IsPrefix(fStored.steps, fStored'.steps) ]_vars

\* what does hold: the save of a call whose read succeeded keeps them
C35_GoodReadKeepsSteps ==
    [][ (fPc \in {"saving", "updating"} /\ fRead = "ok")
            => IsPrefix(fStored.steps, fStored'.steps) ]_vars

-----------------------------------------------------------------------------
(* Claims about a recording session                                          *)

\* C36 (as claimed): no REC_STEP message is sent while recording is off,
\* whichever handler, debounce timer or delayed Enter callback runs.
C36_NothingSentWhileOff ==
    uRecording = "off" => uSent = <<>>

\* what does hold: the debounce timer and the handlers send no type step
\* while recording is off
C36_NoTypeStepWhileOff ==
    uRecording = "off" => RecordedTypeSteps = {}

\* the value of field f was typed, is no longer buffered and was not recorded
ValueLost(f) == uCount[f] = 0 /\ uValue[f] # <<>> /\ uTypingSelector # f

\* two type steps were sent for the value field f holds since it was typed
ValueTwice(f) == uCount[f] = 2

\* C37 (as claimed): each value typed into a text field is recorded as
\* exactly one type step, whatever the order of the debounce timer, click,
\* focus-out, Enter and stop-recording: never twice, never lost.
C37_RecordedExactlyOnce ==
    \A f \in TextFields : ~ValueTwice(f) /\ ~ValueLost(f)

\* C38: a click while typed input is still buffered sends the type step of
\* the buffered input first and the click step after it.
C38_TypeStepBeforeClick ==
    [][ (uTypingSelector # 0 /\ \E i \in DOMAIN uSent' : uSent'[i].type = "click")
            => /\ Len(uSent') = 2
               /\ uSent'[1].type = "type"
               /\ uSent'[1].field = uTypingSelector
               /\ uSent'[1].originalText = uTypingValue
               /\ uSent'[2].type = "click" ]_vars

\* a click flushed a buffered value of two characters with the timer armed
C38_Witness ==
    /\ Len(uSent) = 2
    /\ uSent[1].type = "type" /\ Len(uSent[1].originalText) = 2
    /\ uSent[2].type = "click"

-----------------------------------------------------------------------------
(* Claims about an extract of the empty string                               *)

\* the steps of the run that succeeded with the empty string as their data
EmptyExtracts ==
    { i \in 1..Len(produced) :
        produced[i].success /\ produced[i].extractedData = Str(<<>>) }

\* C39 (as claimed): a successful extract step whose value is the empty
\* string has an entry for its index in the extractedData of the RunResult.
C39_EmptyExtractRecorded ==
    Done => \A i \in EmptyExtracts :
                \E key \in DOMAIN runResult.extractedData : key.index = i - 1

\* what does hold: a successful step whose data is a non-empty string has its
\* entry, under step_<index>
C39_NonEmptyExtractRecorded ==
    Done => \A i \in 1..Len(produced) :
                (produced[i].success /\ Truthy(produced[i].extractedData)) =>
                    /\ StepKey(i - 1) \in DOMAIN runResult.extractedData
                    /\ runResult.extractedData[StepKey(i - 1)] = produced[i].extractedData

-----------------------------------------------------------------------------
(* Specifications                                                            *)

Init == RunInit /\ StepIdle /\ PollIdle /\ ResolveIdle /\ StorageIdle /\ RecorderIdle /\ RaceIdle

Next == RunNext

Spec == Init /\ [][Next]_vars

\* a run during which the environment may signal a stop
StoppableNext == RunNext \/ SignalStop

SpecStoppable == Init /\ [][StoppableNext]_vars

StepSpecInit == RunIdle /\ StepInit /\ PollIdle /\ ResolveIdle /\ StorageIdle /\ RecorderIdle /\ RaceIdle

StepSpecNext == StepExecute

SpecStep == StepSpecInit /\ [][StepSpecNext]_vars

LegacySpecInit == RunIdle /\ LegacyStepInit /\ PollIdle /\ ResolveIdle /\ StorageIdle /\ RecorderIdle /\ RaceIdle

SpecLegacyStep == LegacySpecInit /\ [][StepSpecNext]_vars

PollSpecInit == RunIdle /\ StepIdle /\ PollInit /\ ResolveIdle /\ StorageIdle /\ RecorderIdle /\ RaceIdle

SpecPoll == PollSpecInit /\ [][PollNext]_vars

ResolveSpecInit == RunIdle /\ StepIdle /\ PollIdle /\ ResolveInit /\ StorageIdle /\ RecorderIdle /\ RaceIdle

SpecResolve == ResolveSpecInit /\ [][ResolveNext]_vars

\* resolving by the recorded metadata alone
SpecStaleResolve == ResolveSpecInit /\ [][StaleResolveNext]_vars

\* recording on a page, then resolving with a remote runner
SpecRemoteResolve == ResolveSpecInit /\ [][RemoteResolveNext]_vars

StorageSpecInit ==
    RunIdle /\ StepIdle /\ PollIdle /\ ResolveIdle /\ StorageInit /\ RecorderIdle /\ RaceIdle

SpecStorage == StorageSpecInit /\ [][StorageNext]_vars

RecorderSpecInit ==
    RunIdle /\ StepIdle /\ PollIdle /\ ResolveIdle /\ StorageIdle /\ RecorderInit /\ RaceIdle

SpecRecorder == RecorderSpecInit /\ [][RecorderNext]_vars

RaceSpecInit ==
    /\ RunIdle /\ StepIdle /\ PollIdle /\ ResolveIdle /\ StorageIdle /\ RecorderIdle
    /\ RaceInit

SpecRace == RaceSpecInit /\ [][RaceNext]_vars

NestedSpecInit ==
    /\ RunIdle /\ StepIdle /\ PollIdle /\ StorageIdle /\ RecorderIdle /\ RaceIdle
    /\ NestedInit

\* recording and resolving on the deeply nested pages
SpecNested == NestedSpecInit /\ [][ResolveNext]_vars

OverlapSpecInit ==
    /\ RunIdle /\ StepIdle /\ PollIdle /\ ResolveIdle /\ RecorderIdle /\ RaceIdle
    /\ OverlapInit

\* addStep calls that overlap
SpecOverlap == OverlapSpecInit /\ [][OverlapNext]_vars

\* the remote resolver on a page that changes during a poll
ChangingSpecInit ==
    /\ RunIdle /\ StepIdle /\ PollIdle /\ StorageIdle /\ RecorderIdle /\ RaceIdle
    /\ ChangingInit

SpecChangingResolve == ChangingSpecInit /\ [][ChangingResolveNext]_vars

\* addStep and updateFlow calls, one after another
SpecUpdate == StorageSpecInit /\ [][UpdateNext]_vars

\* recording that is stopped and started again
SpecSession == RecorderSpecInit /\ [][SessionNext]_vars

=============================================================================
